---- MODULE Spec2Model ----
(***************************************************************************)
(* State-machine model of threemaFilesTraceBack.js ("main", lines 719-1131) *)
(* and of the helpers it calls.                                            *)
(*                                                                         *)
(* A file name is the sequence of tokens that name.split('_') yields; a    *)
(* directory is a sequence of folder names below the file-system root; a   *)
(* full name is a record [dir, name, ext].  Strings that the program only  *)
(* concatenates (display names, formatted timestamps) are TLA+ strings.    *)
(***************************************************************************)
EXTENDS Integers, Sequences, FiniteSets, TLC

\* ---------------------------------------------------------------- bounds
\* Most per-item operations (unlink, rename, hash, mkdir, read, write) that fail in one run.
MaxFailures == 3

\* ------------------------------------------------------- program constants
\* found is '~_': the token "~" and the separator that follows it
findOriginal == [find |-> "thumbnail", original |-> "media", found |-> "~"]

specialFilenames == [contacts |-> <<"contacts">>, groups |-> <<"groups">>]

skipFilenames == {<<"ballot">>, <<"ballot", "choice">>, <<"ballot", "vote">>, <<"distribution", "list">>, <<"contacts">>, <<"groups">>}

\* configuration.replaceFileNamePart (default configuration)
replaceFileNamePart == [group |-> "", media |-> "", message |-> "", thumbnail |-> "tn"]

\* configuration.saveMessagesTextsTo = '_texts.txt'
saveMessagesTextsTo == [name |-> <<"", "texts">>, ext |-> "txt"]

\* configuration.saveDuplicateFileNamesTo = '_duplicates.txt', when the report is enabled
saveDuplicateFileNamesTo == [name |-> <<"", "duplicates">>, ext |-> "txt"]

\* The working directory as path.resolve spells it, and the source directory
\* as main spells it by default: ensureTrailingSlash() = './'.
Cwd == << <<"cwd">> >>

sourceDir == << <<".">> >>

\* The directory a spelled directory denotes.
Resolve(dir) == IF dir # <<>> /\ Head(dir) = <<".">> THEN Cwd \o Tail(dir) ELSE dir

\* Values of a JavaScript property that was never assigned.
UndefinedName == <<"undefined">>

UndefinedPath == [dir |-> <<>>, name |-> UndefinedName, ext |-> ""]

UndefinedHash == 0

UndefinedPathHash == [dir |-> <<>>, hash |-> UndefinedHash]

UndefinedIdx == [n |-> 0 - 1, name |-> UndefinedName]

NoIdentity == [identity |-> "", fullname |-> "", id |-> ""]

NoTimestamp == [uid |-> "", fileTimestamp |-> 0, destDir |-> <<>>, ext |-> ""]

\* ------------------------------------------------------------ input data
\* Rows of the tables of the archive, as csvtojson returns them.  A name
\* column holds what split(' ') yields; a body or caption is empty, a text,
\* or the JSON array that describes an attachment (its elements that are
\* strings are given as what split('.') yields).
ContactRows == << [lastname |-> <<"Max">>, firstname |-> <<"max">>, nick_name |-> <<"">>, identity |-> "A"] >>

GroupRows == <<
    [id |-> "7", creator |-> "A", groupname |-> "R/D"],
    [id |-> "8", creator |-> "A", groupname |-> " "],
    [id |-> "7", creator |-> "B", groupname |-> " R "],
    [id |-> "8", creator |-> "A", groupname |-> ""] >>

ContactRowsBallot == << [lastname |-> <<"">>, firstname |-> <<"">>, nick_name |-> <<"">>, identity |-> "ballot"] >>

ContactRowsMuster == << [lastname |-> <<"Muster">>, firstname |-> <<"Max">>, nick_name |-> <<"">>, identity |-> "ABCD1234"] >>

NoBody == [kind |-> "empty", text |-> "", arr |-> <<>>]

TextBody(t) == [kind |-> "text", text |-> t, arr |-> <<>>]

ArrayBody(a) == [kind |-> "array", text |-> "", arr |-> a]

MessageRowsA == <<
    [uid |-> "u2", type |-> "IMAGE", created_at |-> 2, body |-> NoBody, caption |-> TextBody("look"), identity |-> "A"],
    [uid |-> "u2", type |-> "image", created_at |-> 3, body |-> TextBody("oops"), caption |-> NoBody, identity |-> "B"],
    [uid |-> "u3", type |-> "Text", created_at |-> 1, body |-> TextBody("hello"), caption |-> NoBody, identity |-> "A"],
    [uid |-> "u1", type |-> "image", created_at |-> 1, body |-> ArrayBody(<< <<"a">>, <<"b">>, <<"c">>, <<"d">>, <<"photo", "png">> >>), caption |-> NoBody, identity |-> "A"] >>

MessageRowsPlain == <<
    [uid |-> "u2", type |-> "image", created_at |-> 2, body |-> NoBody, caption |-> NoBody, identity |-> ""] >>

MessageRowsGroup == <<
    [uid |-> "u4", type |-> "text", created_at |-> 2, body |-> TextBody(" hi "), caption |-> TextBody("hello"), identity |-> ""],
    [uid |-> "u2", type |-> "image", created_at |-> 4, body |-> NoBody, caption |-> NoBody, identity |-> "A"] >>

MessageRowsHello == <<
    [uid |-> "1", type |-> "text", created_at |-> 4, body |-> TextBody("hello"), caption |-> NoBody, identity |-> "ABCD1234"] >>

\* The files an archive directory may hold: name tokens, extension (lower
\* case, without the dot), byte content (a number stands for one content),
\* and for a table its rows.
Pool == <<
    [name |-> <<"contacts">>, ext |-> "csv", content |-> 10, rows |-> ContactRows],
    [name |-> <<"message", "A">>, ext |-> "csv", content |-> 11, rows |-> MessageRowsA],
    [name |-> <<"media", "u1">>, ext |-> "", content |-> 1, rows |-> <<>>],
    [name |-> <<"u1">>, ext |-> "", content |-> 2, rows |-> <<>>],
    [name |-> <<"u2">>, ext |-> "", content |-> 2, rows |-> <<>>],
    [name |-> <<"thumbnail", "u1">>, ext |-> "", content |-> 3, rows |-> <<>>],
    [name |-> <<"message">>, ext |-> "csv", content |-> 12, rows |-> MessageRowsPlain],
    [name |-> <<"group", "A">>, ext |-> "csv", content |-> 13, rows |-> MessageRowsGroup],
    [name |-> <<"contacts">>, ext |-> "csv", content |-> 14, rows |-> ContactRowsMuster],
    [name |-> <<"message", "uid001", "ABCD1234">>, ext |-> "csv", content |-> 15, rows |-> MessageRowsHello],
    [name |-> <<"uid001">>, ext |-> "", content |-> 4, rows |-> <<>>],
    [name |-> <<"u1">>, ext |-> "log", content |-> 5, rows |-> <<>>],
    [name |-> <<"u1">>, ext |-> "dat", content |-> 3, rows |-> <<>>],
    [name |-> <<"u1">>, ext |-> "txt", content |-> 6, rows |-> <<>>],
    [name |-> <<"groups">>, ext |-> "csv", content |-> 16, rows |-> GroupRows],
    [name |-> <<"group", "7">>, ext |-> "csv", content |-> 17, rows |-> MessageRowsPlain],
    [name |-> <<"7", "A", "u2">>, ext |-> "", content |-> 1, rows |-> <<>>],
    [name |-> <<"7", "u2">>, ext |-> "", content |-> 2, rows |-> <<>>],
    [name |-> <<"A", "u2">>, ext |-> "", content |-> 1, rows |-> <<>>],
    [name |-> <<"contacts">>, ext |-> "csv", content |-> 18, rows |-> ContactRowsBallot],
    [name |-> <<"ballot">>, ext |-> "csv", content |-> 19, rows |-> MessageRowsPlain],
    [name |-> <<"ballot", "u2">>, ext |-> "", content |-> 1, rows |-> <<>>],
    [name |-> <<"thumbnail", "thumbnail">>, ext |-> "", content |-> 3, rows |-> <<>>],
    [name |-> <<"media", "thumbnail">>, ext |-> "", content |-> 1, rows |-> <<>>],
    [name |-> <<"media", "media">>, ext |-> "", content |-> 2, rows |-> <<>>],
    [name |-> <<"0002 ", "0002 ", "u2">>, ext |-> "", content |-> 1, rows |-> <<>>],
    [name |-> <<"u2", "u2">>, ext |-> "", content |-> 2, rows |-> <<>>] >>

\* The archive directories that Init enumerates (sets of Pool entries).
Archives == { {}, {2, 3, 4, 5}, {1, 2, 6, 3}, {7, 4, 5}, {2, 8, 5}, {7, 8, 6}, {9, 10, 11}, {2, 12, 13, 14} }

\* Archive directories with a groups table, with files whose names hold
\* identities, with the name of a skip-listed table that holds an identity,
\* with thumbnails of thumbnails, and with names that hold a timestamp.
MoreArchives == { {1, 15, 16, 17}, {15, 16, 18}, {1, 2, 7, 19}, {20, 21, 22}, {23, 24, 25}, {7, 26, 27} }

\* fileType.fromFile: the type sniffed from the content, "" when none is recognised.
FileTypeFromFile(content) == IF content \in {1, 2, 4} THEN "jpg" ELSE ""

\* ------------------------------------------------------ sequence helpers
Range(s) == {s[k] : k \in 1..Len(s)}

\* Array.prototype.indexOf, 1-based; 0 when absent
IndexOf(s, x) == IF \E k \in 1..Len(s) : s[k] = x THEN CHOOSE k \in 1..Len(s) : s[k] = x /\ \A j \in 1..(k - 1) : s[j] # x ELSE 0

\* Array.prototype.splice(i, 1)
Splice(s, k) == SubSeq(s, 1, k - 1) \o SubSeq(s, k + 1, Len(s))

\* String.prototype.replace(token, by) on a '_'-joined name: the first occurrence only
ReplaceFirst(name, tok, by) == IF IndexOf(name, tok) = 0 THEN name ELSE [name EXCEPT ![IndexOf(name, tok)] = by]

\* Array.prototype.map
Map(s, F(_)) == [k \in 1..Len(s) |-> F(s[k])]

\* The tokens of a '_'-joined string after replace(/_{2,}/g, '_'), replace(/^_/, '')
\* and replace(/[_.]+$/, ''): no empty token is left.
DropEmpty(name) == SelectSeq(name, LAMBDA t : t # "")

\* ---------------------------------------------------------- string tables
\* String.prototype.toLowerCase on the strings of the input data.
ToLowerCase(t) == CASE t = "Max" -> "max" [] t = "Muster" -> "muster" [] t = "ABCD1234" -> "abcd1234" [] t = "A" -> "a" [] t = "B" -> "b" [] t = "IMAGE" -> "image" [] t = "Text" -> "text" [] t = "R/D" -> "r/d" [] OTHER -> t

\* validPlatformName on linux: '/' and the non-printable characters become '.',
\* runs of dots collapse; every other string is returned as it is.
validPlatformName(s) == CASE s = "R/D 7" -> "R.D 7" [] s = "R/D" -> "R.D" [] OTHER -> s

\* String.prototype.trim on the group names of the input data.
Trim(s) == CASE s = " " -> "" [] s = " R " -> "R" [] OTHER -> s

\* strftime(date, '%Y-%m-%d %H:%M:%S') of the date of created_at: one string
\* per second, in chronological order.
strftime(t) == <<"0001", "0002", "0003", "0004">>[t]

Timestamps == 1..4

\* localeCompare: the order of the characters and of the tokens that names are made of.
Collation == <<" ", "_", "~", "0001", "0002", "0003", "0004", "1", "2", "3", "4", "5", "6", "7", "8", "9", "A", "ABCD1234", "B", "ballot", "contacts", "group", "groups", "Max A", "media", "message", "Muster Max ABCD1234", "R 7", "R.D 7", "thumbnail", "tn", "u1", "u2", "u3", "uid001", "undefined">>

RankOf == [t \in Range(Collation) |-> IndexOf(Collation, t)]

Rank(t) == IF t \in DOMAIN RankOf THEN RankOf[t] ELSE 0

\* String(++n): the decimal numeral of a disambiguator.
Numeral(n) == <<"1", "2", "3", "4", "5", "6", "7", "8", "9">>[n]

\* The collation elements of one token: a token that starts with a formatted
\* timestamp and a blank is made of the timestamp, the blank and the rest.
CompoundKey == [t \in {strftime(q[1]) \o " " \o q[2] : q \in Timestamps \X Range(Collation)} |-> LET p == CHOOSE q \in Timestamps \X Range(Collation) : t = strftime(q[1]) \o " " \o q[2] IN <<RankOf[strftime(p[1])], RankOf[" "], RankOf[p[2]]>>]

TokenKey(t) == IF t \in DOMAIN RankOf THEN <<RankOf[t]>> ELSE CompoundKey[t]

RECURSIVE NameKey(_)
NameKey(name) == IF name = <<>> THEN <<>> ELSE IF Len(name) = 1 THEN TokenKey(name[1]) ELSE TokenKey(name[1]) \o <<Rank("_")>> \o NameKey(Tail(name))

\* a < b for sequences of collation elements
RECURSIVE KeyLess(_, _)
KeyLess(a, b) == IF b = <<>> THEN FALSE ELSE IF a = <<>> THEN TRUE ELSE IF a[1] # b[1] THEN a[1] < b[1] ELSE KeyLess(Tail(a), Tail(b))

\* a.duplicateIdx.localeCompare(b.duplicateIdx) < 0, for
\* duplicateIdx = String(n).padStart(6, '0') + dest.name
IdxLess(a, b) == IF a.n # b.n THEN a.n < b.n ELSE KeyLess(NameKey(a.name), NameKey(b.name))

\* dynamicSort('duplicateIdx') applied by Array.prototype.sort, which is stable:
\* insertion of each element behind the elements that are not greater.
RECURSIVE InsertByIdx(_, _)
InsertByIdx(sorted, f) == IF sorted = <<>> THEN <<f>> ELSE IF IdxLess(f.duplicateIdx, Head(sorted).duplicateIdx) THEN <<f>> \o sorted ELSE <<Head(sorted)>> \o InsertByIdx(Tail(sorted), f)

RECURSIVE SortAcc(_, _)
SortAcc(acc, rest) == IF rest = <<>> THEN acc ELSE SortAcc(InsertByIdx(acc, Head(rest)), Tail(rest))

dynamicSort(group) == SortAcc(<<>>, group)

\* ------------------------------------------------------------ identities
\* join(' ').replace(/\s+/g, ' ').trim() of a list of words
RECURSIVE JoinWords(_)
JoinWords(w) == IF w = <<>> THEN "" ELSE IF w[1] = "" THEN JoinWords(Tail(w)) ELSE IF DropEmpty(Tail(w)) = <<>> THEN w[1] ELSE w[1] \o " " \o JoinWords(Tail(w))

\* A variant of the filter of lines 813-815 that keeps every token.
RECURSIVE AllTokens(_, _)
AllTokens(tokens, k) == IF k > Len(tokens) THEN <<>> ELSE <<tokens[k]>> \o AllTokens(tokens, k + 1)

\* tokens.filter((c, idx) => tokens.map(toLowerCase).indexOf(c.toLowerCase()) === idx)
RECURSIVE UniqueTokens(_, _)
UniqueTokens(tokens, k) == IF k > Len(tokens) THEN <<>> ELSE (IF IndexOf(Map(tokens, ToLowerCase), ToLowerCase(tokens[k])) = k THEN <<tokens[k]>> ELSE <<>>) \o UniqueTokens(tokens, k + 1)

\* The identity made of one row of a contacts table.
contactIdentity(o) == [identity |-> o.identity, fullname |-> validPlatformName(JoinWords(UniqueTokens(o.lastname \o o.firstname \o o.nick_name \o <<o.identity>>, 1))), id |-> ""]

\* The identity made of one row of a groups table.
groupIdentity(o) == [identity |-> o.id \o "-" \o o.creator, fullname |-> validPlatformName(IF Trim(o.groupname) # "" THEN Trim(o.groupname) \o " " \o o.id ELSE o.id \o "-" \o o.creator), id |-> o.id]

\* arrayToObject(a, 'identity'): one record per key, at the place of the key's
\* first record and with the value of its last record.
RECURSIVE arrayToObject(_)
arrayToObject(a) == IF a = <<>> THEN <<>> ELSE LET rest == arrayToObject(SubSeq(a, 1, Len(a) - 1))
                                                 last == a[Len(a)]
                                             IN IF \E k \in 1..Len(rest) : rest[k].identity = last.identity THEN [k \in 1..Len(rest) |-> IF rest[k].identity = last.identity THEN last ELSE rest[k]] ELSE Append(rest, last)

\* timestampFromFilename: the entry of the first token that is a key
timestampFromFilename(a, fts) == IF \E k \in 1..Len(a) : a[k] \in DOMAIN fts THEN fts[a[CHOOSE k \in 1..Len(a) : a[k] \in DOMAIN fts /\ \A j \in 1..(k - 1) : a[j] \notin DOMAIN fts]] ELSE NoTimestamp

IsKey(t, ids) == \E k \in 1..Len(ids) : ids[k].identity = t

IsId(t, ids) == \E k \in 1..Len(ids) : ids[k].id # "" /\ ids[k].id = t

\* A one-pass variant of identityFromFilename: the identity of the first token
\* that is a key or an id.
identityByFirstToken(a, ids) == IF \E k \in 1..Len(a) : \E i \in 1..Len(ids) : a[k] \in {ids[i].identity, ids[i].id}
                                THEN ids[CHOOSE i \in 1..Len(ids) : /\ a[CHOOSE k \in 1..Len(a) : (\E h \in 1..Len(ids) : a[k] \in {ids[h].identity, ids[h].id}) /\ \A j \in 1..(k - 1) : \A h \in 1..Len(ids) : a[j] \notin {ids[h].identity, ids[h].id}] \in {ids[i].identity, ids[i].id}
                                                                    /\ \A h \in 1..(i - 1) : a[CHOOSE k \in 1..Len(a) : (\E g \in 1..Len(ids) : a[k] \in {ids[g].identity, ids[g].id}) /\ \A j \in 1..(k - 1) : \A g \in 1..Len(ids) : a[j] \notin {ids[g].identity, ids[g].id}] \notin {ids[h].identity, ids[h].id}]
                                ELSE NoIdentity

\* identityFromFilename: the identity of the first token that is a key; when
\* no token is a key, the first identity whose id is the first token that is an id
identityFromFilename(a, ids) == IF \E k \in 1..Len(a) : IsKey(a[k], ids)
                                THEN ids[CHOOSE i \in 1..Len(ids) : ids[i].identity = a[CHOOSE k \in 1..Len(a) : IsKey(a[k], ids) /\ \A j \in 1..(k - 1) : ~IsKey(a[j], ids)]]
                                ELSE IF \E k \in 1..Len(a) : IsId(a[k], ids)
                                THEN ids[CHOOSE i \in 1..Len(ids) : /\ ids[i].id = a[CHOOSE k \in 1..Len(a) : IsId(a[k], ids) /\ \A j \in 1..(k - 1) : ~IsId(a[j], ids)]
                                                                    /\ \A h \in 1..(i - 1) : ids[h].id # ids[i].id]
                                ELSE NoIdentity

\* A variant of replaceNameParts that leaves every token as it is.
KeepPart(t, ids) == t

\* One token of replaceNameParts: the display name of its identity, or its configured replacement
ReplacePart(t, ids) == IF identityFromFilename(<<t>>, ids) # NoIdentity THEN identityFromFilename(<<t>>, ids).fullname ELSE IF t \in DOMAIN replaceFileNamePart THEN replaceFileNamePart[t] ELSE t

\* replaceNameParts(a, identities, {includeReplaceParts: true, ...}); the default
\* configuration.replaceStringPart is empty.
replaceNameParts(a, ids) == LET joined == DropEmpty([k \in 1..Len(a) |-> ReplacePart(a[k], ids)]) IN [k \in 1..Len(joined) |-> validPlatformName(joined[k])]

\* ------------------------------------------------------------------ state
VARIABLES
    pc,              \* the stage main is in
    cfg,             \* configuration
    listing,         \* what readDirSync returned: Pool entries in enumeration order
    files,           \* the live array "files"
    idx,             \* loop index of the stage
    csvFiles,        \* the array "csvFiles"
    identities,      \* the Identity Index, in key order
    fileTimestamps,  \* the Timestamp Index: uid -> entry
    disk,            \* regular files of the listing on disk: full name -> Pool entry
    dirs,            \* directories on disk
    texts,           \* transcript files on disk: directory -> lines
    deleted,         \* the array "deleted"
    manifest,        \* lines of the duplicates file on disk, NoManifest when not written
    log,             \* what doLog was given
    overwritten,     \* Pool entries whose file a rename replaced
    failures,        \* per-item operations that failed so far
    filesObj,        \* the object "filesObj" of the thumbnail pass: the names that are its keys
    run,             \* 1 in the first run of main, 2 in a second run on what the first left
    call             \* a call of the matching functions by itself: its argument and what it returned

vars == <<pc, cfg, listing, files, idx, csvFiles, identities, fileTimestamps, disk, dirs, texts, deleted, manifest, log, overwritten, failures, filesObj, run, call>>

\* The value of "call" while main runs.
NoCall == [a |-> <<>>, identity |-> NoIdentity, timestamp |-> NoTimestamp]

NoManifest == << [dir |-> <<>>, name |-> <<"not written">>, ext |-> ""] >>

\* The delimiter between two blocks of the duplicates file
BlankLine == [dir |-> <<>>, name |-> <<>>, ext |-> ""]

\* Put(f, k, v): f[k] = v
Put(f, k, v) == [x \in DOMAIN f \cup {k} |-> IF x = k THEN v ELSE f[x]]

Remove(f, k) == [x \in DOMAIN f \ {k} |-> f[x]]

FullName(dir, name, ext) == [dir |-> dir, name |-> name, ext |-> ext]

\* The file a spelled full name denotes.
ResolvePath(p) == [p EXCEPT !.dir = Resolve(p.dir)]

\* pathExistsSync: fs.existsSync is true for a file and for a directory
pathExistsSync(p) == \/ ResolvePath(p) \in DOMAIN disk
                     \/ p.ext = "" /\ Resolve(p.dir \o <<p.name>>) \in dirs
                     \/ p.ext = saveMessagesTextsTo.ext /\ p.name = saveMessagesTextsTo.name /\ Resolve(p.dir) \in DOMAIN texts
                     \/ p.ext = saveDuplicateFileNamesTo.ext /\ p.name = saveDuplicateFileNamesTo.name /\ Resolve(p.dir) = Resolve(sourceDir) /\ manifest # NoManifest

LogEntry(level, msg, path, uid) == [level |-> level, msg |-> msg, path |-> path, uid |-> uid]

\* One more failure fits the bound of the model.
MayFail == failures < MaxFailures

\* readDirSync: the file object of a Pool entry found in the source directory
FileObject(id) == [id |-> id, fullname |-> FullName(Cwd, Pool[id].name, Pool[id].ext), dir |-> Cwd, name |-> Pool[id].name, ext |-> Pool[id].ext,
                   tmpSet |-> FALSE, tmpName |-> UndefinedName, duplicateIdx |-> UndefinedIdx, destFullname |-> UndefinedPath,
                   hash |-> UndefinedHash, pathHash |-> UndefinedPathHash, dest |-> UndefinedPath, utimes |-> UndefinedPath]

\* The enumeration orders of an archive directory
Enumerations(archive) == {s \in [1..Cardinality(archive) -> archive] : \A j, k \in 1..Cardinality(archive) : j # k => s[j] # s[k]}

Configurations == [deleteThumbnailIfOriginalExists : BOOLEAN, removeDuplicatesWithinFolder : BOOLEAN, saveDuplicateFileNamesTo : BOOLEAN, removeEmptyFolders : BOOLEAN]

\* State when main has read the configuration and the command line: the
\* source directory may be missing (no directory on disk at all).
Init == /\ pc = "Enumerate"
        /\ cfg \in Configurations
        /\ \E archive \in Archives : listing \in Enumerations(archive)
        /\ dirs \in IF listing = <<>> THEN {{}, {Cwd}} ELSE {{Cwd}}
        /\ files = <<>>
        /\ idx = 0
        /\ csvFiles = <<>>
        /\ identities = <<>>
        /\ fileTimestamps = <<>>
        /\ disk = [p \in {FullName(Cwd, Pool[id].name, Pool[id].ext) : id \in Range(listing)} |-> CHOOSE id \in Range(listing) : FullName(Cwd, Pool[id].name, Pool[id].ext) = p]
        /\ texts = <<>>
        /\ deleted = <<>>
        /\ manifest = NoManifest
        /\ log = {}
        /\ overwritten = {}
        /\ failures = 0
        /\ filesObj = {}
        /\ run = 1
        /\ call = NoCall

\* ------------------------------------------------------------- Enumerate
\* A variant of the test of line 765 that takes every listing for one that holds a file.
FilesAssumed(found) == FALSE

\* line 765: (!Array.isArray(files)) || (!files.length)
NoFilesFound(found) == found = <<>>

\* readDirSync, lines 643-656: the file object of a file that is on disk
FileAt(p) == [FileObject(disk[p]) EXCEPT !.fullname = p, !.dir = p.dir, !.name = p.name, !.ext = p.ext]

\* readDirSync(sourceDir, recursive): the files of the listing that are on
\* disk, in the order of the listing.  In the first run that is every file
\* of the listing, in the source directory; a second run is recursive and
\* finds the files where the first run left them.  The transcripts and the
\* duplicates file are no Pool entries and are left out of a second listing.
readDirSync == LET there == SelectSeq(listing, LAMBDA id : \E p \in DOMAIN disk : disk[p] = id)
               IN [k \in 1..Len(there) |-> FileAt(CHOOSE p \in DOMAIN disk : disk[p] = there[k])]

\* main, lines 754-768: the source directory must exist and hold a file;
\* line 773: filesObj = arrayToObject(files, 'name').
Enumerate == /\ pc = "Enumerate"
             /\ IF Resolve(sourceDir) \notin dirs
                THEN /\ pc' = "Aborted"
                     /\ UNCHANGED <<files, idx, log, filesObj>>
                ELSE IF NoFilesFound(readDirSync)
                THEN /\ pc' = "Aborted"
                     /\ log' = log \cup {LogEntry("error", "something went wrong", UndefinedPath, "")}
                     /\ UNCHANGED <<files, idx, filesObj>>
                ELSE /\ pc' = "ThumbnailElimination"
                     /\ files' = readDirSync
                     /\ filesObj' = {files'[k].name : k \in 1..Len(files')}
                     /\ idx' = Len(files')
                     /\ log' = log \cup {LogEntry("info", "files found", UndefinedPath, "")}
             /\ UNCHANGED <<cfg, listing, csvFiles, identities, fileTimestamps, disk, dirs, texts, deleted, manifest, overwritten, failures, run, call>>

\* --------------------------------------------------- ThumbnailElimination
\* files[i].name.replace(findOriginal.find, findOriginal.original)
nameRed(name) == ReplaceFirst(name, findOriginal.find, findOriginal.original)

\* A variant of the test of line 776 that does not look the original up in the listing.
NameIsThumbnail(name) == nameRed(name) # name

\* line 776: (nameRed !== files[i].name) && (filesObj[nameRed] !== undefined)
HasOriginal(name) == nameRed(name) # name /\ nameRed(name) \in filesObj

\* The stage after the thumbnail loop: csvFiles = files.filter(o => /csv/i.test(o.ext))
CsvObject(f) == [id |-> f.id, fullname |-> f.fullname, name |-> f.name, identity |-> NoIdentity, nameExplicit |-> <<>>, destDir |-> <<>>, skipped |-> FALSE, rows |-> <<>>, texts |-> <<>>]

\* A variant of line 787 that leaves the name as it is.
UnmarkedName(name) == name

\* line 787: findOriginal.found + files[i].name
MarkedName(name) == <<findOriginal.found>> \o name

\* A variant of the test of line 777 that does not read the configuration.
DeleteAlways == TRUE

\* line 777: configuration.deleteThumbnailIfOriginalExists
DeleteThumbnail == cfg.deleteThumbnailIfOriginalExists

\* main, lines 774-795: one turn of the backward loop over files.
ThumbnailElimination == /\ pc = "ThumbnailElimination"
                        /\ idx >= 1
                        /\ LET f == files[idx]
                           IN IF HasOriginal(f.name)
                              THEN IF DeleteThumbnail
                                   THEN \/ /\ disk' = Remove(disk, f.fullname)
                                           /\ files' = Splice(files, idx)
                                           /\ log' = log \cup {LogEntry("debug", "ok, could delete thumbnail file", f.fullname, "")}
                                           /\ UNCHANGED failures
                                        \/ /\ MayFail
                                           /\ failures' = failures + 1
                                           /\ log' = log \cup {LogEntry("error", "could not delete thumbnail file", f.fullname, "")}
                                           /\ UNCHANGED <<disk, files>>
                                   ELSE /\ files' = [files EXCEPT ![idx].tmpName = MarkedName(f.name), ![idx].tmpSet = TRUE]
                                        /\ log' = log \cup {LogEntry("debug", "ok, could mark thumbnail file", f.fullname, "")}
                                        /\ UNCHANGED <<disk, failures>>
                              ELSE /\ files' = [files EXCEPT ![idx].tmpName = f.name, ![idx].tmpSet = TRUE]
                                   /\ UNCHANGED <<disk, log, failures>>
                        /\ idx' = idx - 1
                        /\ pc' = IF idx = 1 THEN "IndexIdentities" ELSE pc
                        /\ UNCHANGED <<cfg, listing, csvFiles, identities, fileTimestamps, dirs, texts, deleted, manifest, overwritten, filesObj, run, call>>

\* ------------------------------------------------------- IndexIdentities
\* getCsvFileAsJSON(fullname, false) of the tables with the given name
RECURSIVE ReadAll(_)
ReadAll(tables) == IF tables = <<>> THEN <<>> ELSE Pool[Head(tables).id].rows \o ReadAll(Tail(tables))

TablesNamed(name) == SelectSeq(Map(SelectSeq(files, LAMBDA f : f.ext = "csv"), CsvObject), LAMBDA c : Map(c.name, ToLowerCase) = name)

\* main, lines 800-841: select the tables, read the contacts and the groups.
\* A table that cannot be read makes getCsvFileAsJSON throw up to main's catch.
IndexIdentities == /\ pc = "IndexIdentities"
                   /\ csvFiles' = Map(SelectSeq(files, LAMBDA f : f.ext = "csv"), CsvObject)
                   /\ \/ /\ identities' = arrayToObject(Map(ReadAll(TablesNamed(specialFilenames.contacts)), contactIdentity) \o Map(ReadAll(TablesNamed(specialFilenames.groups)), groupIdentity))
                         /\ pc' = IF csvFiles' = <<>> THEN "ClassifyAndRename" ELSE "IndexTimestampsAndExtractText"
                         /\ idx' = 1
                         /\ log' = log \cup {LogEntry("info", "contacts and groups found", UndefinedPath, "")}
                         /\ UNCHANGED failures
                      \/ /\ MayFail
                         /\ \E c \in Range(TablesNamed(specialFilenames.contacts)) \cup Range(TablesNamed(specialFilenames.groups)) :
                               log' = log \cup {LogEntry("error", "could not read file and convert it to JSON", c.fullname, ""), LogEntry("error", "something went wrong", UndefinedPath, "")}
                         /\ failures' = failures + 1
                         /\ pc' = "Aborted"
                         /\ UNCHANGED <<identities, idx>>
                   /\ UNCHANGED <<cfg, listing, files, fileTimestamps, disk, dirs, texts, deleted, manifest, overwritten, filesObj, run, call>>

\* ----------------------------------------- IndexTimestampsAndExtractText
\* ext = tmp[4].split('.').pop() when the body is an array of at least 5
\* elements whose 5th is a string; "" (null) otherwise
RowExt(o) == IF o.body.kind = "array" /\ Len(o.body.arr) >= 5 /\ o.body.arr[5] # <<>> THEN o.body.arr[5][Len(o.body.arr[5])] ELSE ""

\* A variant of the test of line 859 that takes every row for the row of a file.
EveryRow(o) == TRUE

\* line 859: o.type.toLowerCase() !== 'text'
IsFileRow(o) == ToLowerCase(o.type) # "text"

\* A first-write variant of the insertion: the entry of a uid that is already a key is kept.
KeepFirst(fts, entry) == IF entry.uid \in DOMAIN fts THEN fts ELSE [x \in DOMAIN fts \cup {entry.uid} |-> IF x = entry.uid THEN entry ELSE fts[x]]

\* fileTimestamps[o.uid] = {...}, after the collision was logged
StoreTimestamp(fts, entry) == Put(fts, entry.uid, entry)

\* The rows.map callback applied to the rows in order: the Timestamp Index after them
RECURSIVE IndexRows(_, _, _)
IndexRows(rows, fts, destDir) == IF rows = <<>> THEN fts
                                 ELSE IndexRows(Tail(rows), IF IsFileRow(Head(rows)) THEN StoreTimestamp(fts, [uid |-> Head(rows).uid, fileTimestamp |-> Head(rows).created_at, destDir |-> destDir, ext |-> RowExt(Head(rows))]) ELSE fts, destDir)

\* doLog calls of the rows.map callback: a uid that is already a key, a body that is no JSON
RowsLog(rows, fts, name) == {LogEntry("fatal", "file timestamp collision", UndefinedPath, rows[k].uid) : k \in {k \in 1..Len(rows) : IsFileRow(rows[k]) /\ (rows[k].uid \in DOMAIN fts \/ \E j \in 1..(k - 1) : IsFileRow(rows[j]) /\ rows[j].uid = rows[k].uid)}}
                            \cup {LogEntry("error", "could not convert body to JSON", UndefinedPath, rows[k].uid) : k \in {k \in 1..Len(rows) : IsFileRow(rows[k]) /\ rows[k].body.kind = "text"}}

\* cleanText: leading and trailing white space removed, line breaks and runs of
\* white space replaced; one text of the input data is enclosed in blanks
cleanText(t) == IF t = " hi " THEN "hi" ELSE t

\* Code-unit order of the texts of the input data (Array.prototype.sort without comparator)
TextOrder == <<"hello", "hi", "look", "oops">>

\* The line pushed for column s of row i (lines 893-900), with its sort string
TextLine(rows, i, s, ids) == LET o == rows[i]
                                 author == IF o.identity # "" /\ \E k \in 1..Len(ids) : ids[k].identity = o.identity THEN ids[CHOOSE k \in 1..Len(ids) : ids[k].identity = o.identity].fullname ELSE ""
                             IN [time |-> o.created_at, row |-> i, stamp |-> strftime(o.created_at), text |-> cleanText(o[s].text), author |-> author]

RECURSIVE RowTexts(_, _, _)
RowTexts(rows, i, ids) == IF i > Len(rows) THEN <<>>
                          ELSE (IF rows[i].body.kind = "text" THEN <<TextLine(rows, i, "body", ids)>> ELSE <<>>) \o (IF rows[i].caption.kind = "text" THEN <<TextLine(rows, i, "caption", ids)>> ELSE <<>>) \o RowTexts(rows, i + 1, ids)

\* A variant of the sort string of line 899 without the time of the message.
RowOrder(a, b) == a.row < b.row

LineLess(a, b) == IF a.time # b.time THEN a.time < b.time ELSE IF a.row # b.row THEN a.row < b.row ELSE IndexOf(TextOrder, a.text) < IndexOf(TextOrder, b.text)

RECURSIVE InsertLine(_, _)
InsertLine(sorted, l) == IF sorted = <<>> THEN <<l>> ELSE IF LineLess(l, Head(sorted)) THEN <<l>> \o sorted ELSE <<Head(sorted)>> \o InsertLine(Tail(sorted), l)

RECURSIVE SortLines(_, _)
SortLines(acc, rest) == IF rest = <<>> THEN acc ELSE SortLines(InsertLine(acc, Head(rest)), Tail(rest))

\* csv.texts.sort().map(s => s.split('\t')[1])
csvTexts(rows, ids) == Map(SortLines(<<>>, RowTexts(rows, 1, ids)), LAMBDA l : [stamp |-> l.stamp, text |-> l.text, author |-> l.author])

\* csv.destDir = ensureTrailingSlash(sourceDir + csv.nameExplicit)
DestDir(nameExplicit) == IF nameExplicit = <<>> THEN sourceDir ELSE sourceDir \o <<nameExplicit>>

\* createDirSync(sourceDir + csv.nameExplicit): mkdir unless the path exists
createDirSync(nameExplicit) == IF pathExistsSync(IF nameExplicit = <<>> THEN FullName(<<>>, Head(sourceDir), "") ELSE FullName(sourceDir, nameExplicit, "")) THEN dirs ELSE dirs \cup {Resolve(DestDir(nameExplicit))}

\* A variant in which the thumbnail loop follows the last table.
ThumbnailsAfterTables(k) == IF k >= Len(csvFiles) THEN "ThumbnailElimination" ELSE "IndexTimestampsAndExtractText"

\* The stage after the last table
AfterTables(k) == IF k >= Len(csvFiles) THEN "ClassifyAndRename" ELSE "IndexTimestampsAndExtractText"

\* main, lines 847-920: one turn of the loop over csvFiles.  createDirSync and
\* getCsvFileAsJSON throw up to main's catch; a transcript that cannot be
\* written is logged.
IndexTimestampsAndExtractText ==
    /\ pc = "IndexTimestampsAndExtractText"
    /\ idx \in 1..Len(csvFiles)
    /\ LET csv == csvFiles[idx]
           identity == identityFromFilename(csv.name, identities)
           nameExplicit == replaceNameParts(csv.name, identities)
           destDir == DestDir(nameExplicit)
           rows == Pool[csv.id].rows
           lines == csvTexts(rows, identities)
           found == [csv EXCEPT !.identity = identity, !.nameExplicit = nameExplicit, !.destDir = destDir]
       IN IF csv.name \in skipFilenames
          THEN /\ csvFiles' = [csvFiles EXCEPT ![idx] = [found EXCEPT !.skipped = TRUE]]
               /\ pc' = AfterTables(idx)
               /\ idx' = IF idx >= Len(csvFiles) THEN 1 ELSE idx + 1
               /\ UNCHANGED <<fileTimestamps, dirs, texts, log, failures>>
          ELSE \/ /\ MayFail
                  /\ createDirSync(nameExplicit) # dirs
                  /\ failures' = failures + 1
                  /\ csvFiles' = [csvFiles EXCEPT ![idx] = found]
                  /\ log' = log \cup {LogEntry("error", "could not create directory", FullName(sourceDir, nameExplicit, ""), ""), LogEntry("error", "something went wrong", UndefinedPath, "")}
                  /\ pc' = "Aborted"
                  /\ UNCHANGED <<idx, fileTimestamps, dirs, texts>>
               \/ /\ MayFail
                  /\ failures' = failures + 1
                  /\ csvFiles' = [csvFiles EXCEPT ![idx] = found]
                  /\ dirs' = createDirSync(nameExplicit)
                  /\ log' = log \cup {LogEntry("error", "could not read file and convert it to JSON", csv.fullname, ""), LogEntry("error", "something went wrong", UndefinedPath, "")}
                  /\ pc' = "Aborted"
                  /\ UNCHANGED <<idx, fileTimestamps, texts>>
               \/ /\ csvFiles' = [csvFiles EXCEPT ![idx] = [found EXCEPT !.rows = rows, !.texts = lines]]
                  /\ dirs' = createDirSync(nameExplicit)
                  /\ fileTimestamps' = IndexRows(rows, fileTimestamps, destDir)
                  /\ pc' = AfterTables(idx)
                  /\ idx' = IF idx >= Len(csvFiles) THEN 1 ELSE idx + 1
                  /\ \/ /\ texts' = IF lines # <<>> THEN Put(texts, Resolve(destDir), lines) ELSE texts
                        /\ log' = log \cup RowsLog(rows, fileTimestamps, csv.name)
                        /\ UNCHANGED failures
                     \/ /\ MayFail
                        /\ lines # <<>>
                        /\ failures' = failures + 1
                        /\ log' = log \cup RowsLog(rows, fileTimestamps, csv.name) \cup {LogEntry("error", "could not write text file", FullName(destDir, saveMessagesTextsTo.name, saveMessagesTextsTo.ext), "")}
                        /\ UNCHANGED texts
    /\ UNCHANGED <<cfg, listing, files, identities, disk, deleted, manifest, overwritten, filesObj, run, call>>

\* ------------------------------------------------------ ClassifyAndRename
\* The bytes of the file a full name denotes (0: no such file)
ContentAt(p) == IF ResolvePath(p) \in DOMAIN disk THEN Pool[disk[ResolvePath(p)]].content ELSE 0

\* line 937: tables, logs, texts and the identity and settings files keep their extension as type
IsTabular(f) == f.ext \in {"csv", "log", "txt"} \/ \E k \in 1..Len(f.name) : f.name[k] \in {"identity", "settings"}

\* dest.type: [known, ext]; known is FALSE for null
DestType(f) == IF IsTabular(f) THEN [known |-> TRUE, ext |-> f.ext] ELSE [known |-> FileTypeFromFile(ContentAt(f.fullname)) # "", ext |-> FileTypeFromFile(ContentAt(f.fullname))]

\* line 946: /csv/.test(dest.ext) or /txt/.test(dest.ext)
SkipsNaming(f) == f.ext \in {"csv", "txt"}

\* timestampPart = validPlatformName(strftime(dest.timestampISO, fileTimestampFormat) + ' ')
TimestampPart(t) == validPlatformName(strftime(t) \o " ")

\* while (dest.name.indexOf(timestampPart) !== -1) dest.name = dest.name.replace(timestampPart, '')
Stripped == [q \in {<<strftime(t) \o " ", strftime(t) \o " " \o r>> : t \in Timestamps, r \in Range(Collation) \cup {""}} |-> CHOOSE r \in Range(Collation) \cup {""} : q[2] = q[1] \o r]

StripPart(name, part) == [k \in 1..Len(name) |-> IF <<part, name[k]>> \in DOMAIN Stripped THEN Stripped[<<part, name[k]>>] ELSE name[k]]

\* (timestampPart + dest.name).trim()
PrependPart(t, name) == IF name = <<>> THEN <<strftime(t)>> ELSE <<TimestampPart(t) \o Head(name)>> \o Tail(name)

\* csvFiles.map(o => o.identity ? o.identity.identity : null).indexOf(identity.identity)
CsvOfIdentity(identity) == IF \E k \in 1..Len(csvFiles) : csvFiles[k].identity # NoIdentity /\ csvFiles[k].identity.identity = identity.identity
                           THEN CHOOSE k \in 1..Len(csvFiles) : /\ csvFiles[k].identity # NoIdentity /\ csvFiles[k].identity.identity = identity.identity
                                                                /\ \A j \in 1..(k - 1) : csvFiles[j].identity = NoIdentity \/ csvFiles[j].identity.identity # identity.identity
                           ELSE 0

\* A variant of lines 955-957 that leaves the type as the sniffing gave it.
SniffedType(type0, ft) == type0

\* lines 955-957: if ((!dest.type) && fileTimestamp.ext) dest.type = { ext: fileTimestamp.ext }
HintedType(type0, ft) == IF ~type0.known /\ ft.ext # "" THEN [known |-> TRUE, ext |-> ft.ext] ELSE type0

\* lines 929-992: the destination of a file whose working name is set
Dest(f) == LET ft == timestampFromFilename(f.name, fileTimestamps)
               hasTs == ft # NoTimestamp
               identity == identityFromFilename(f.name, identities)
               i == IF identity = NoIdentity THEN 0 ELSE CsvOfIdentity(identity)
               type0 == DestType(f)
               type == IF hasTs THEN HintedType(type0, ft) ELSE type0
               name0 == IF f.tmpSet THEN f.tmpName ELSE UndefinedName
               name1 == IF hasTs THEN StripPart(ReplaceFirst(name0, ft.uid, ""), TimestampPart(ft.fileTimestamp)) ELSE name0
               name2 == IF i # 0 THEN ReplaceFirst(name1, identity.identity, "") ELSE name1
               name3 == replaceNameParts(name2, identities)
               name4 == IF hasTs THEN PrependPart(ft.fileTimestamp, name3) ELSE name3
           IN [dir |-> IF SkipsNaming(f) THEN f.dir ELSE IF i # 0 THEN csvFiles[i].destDir ELSE IF hasTs THEN ft.destDir ELSE f.dir,
               name |-> IF SkipsNaming(f) THEN name0 ELSE name4,
               ext |-> IF SkipsNaming(f) THEN f.ext ELSE IF type.known THEN ToLowerCase(type.ext) ELSE f.ext,
               typed |-> IF SkipsNaming(f) THEN TRUE ELSE type.known,
               timestamp |-> IF SkipsNaming(f) \/ ~hasTs THEN 0 ELSE ft.fileTimestamp]

\* dest.name.replace or a.split on an undefined working name: TypeError
Throws(f) == ~f.tmpSet /\ ~SkipsNaming(f)

\* dest.fullname for disambiguator n (line 996 and line 1001)
Candidate(d, n) == IF n = 0 THEN FullName(d.dir, d.name, d.ext) ELSE FullName(d.dir, <<Numeral(n)>> \o (IF d.name = <<>> THEN <<"">> ELSE d.name), d.ext)

\* while (pathExistsSync(dest.fullname)) dest.fullname = dest.dir + String(++n) + '_' + ...
RECURSIVE Probe(_, _)
Probe(d, n) == IF pathExistsSync(Candidate(d, n)) THEN Probe(d, n + 1) ELSE n

\* A variant without the probe: the computed destination is used as it is.
NoProbe(f, d) == 0

\* n after lines 997-1002
Disambiguator(f, d) == IF Candidate(d, 0) # f.fullname THEN Probe(d, 0) ELSE 0

\* A variant of the catch of line 1007 that keeps the name the rename was tried with.
KeepTarget(f, target, needed, renamed) == target

\* dest.fullname after lines 996-1014: the original full name when the rename threw
FinalName(f, target, needed, renamed) == IF needed /\ ~renamed THEN f.fullname ELSE target

\* the digest of getHash: equal for equal contents only
sha256(content) == 7 * content + 3

\* file.pathHash: the full name with the name and extension replaced by the hash
PathHash(p, h) == [dir |-> p.dir, hash |-> h]

\* fs.renameSync(from, to): the file is at "to" afterwards, in place of what was there
renameSync(from, to) == Put(Remove(disk, ResolvePath(from)), ResolvePath(to), disk[ResolvePath(from)])

\* main, lines 926-1035: one turn of the loop over files.  renameFails, hashFails
\* and utimesFails say which of the three guarded operations throw; getHash and
\* utimesSync are given dest.fullname and throw when no file is there.
ClassifyAndRename ==
    /\ pc = "ClassifyAndRename"
    /\ idx \in 1..Len(files)
    /\ IF Throws(files[idx])
       THEN /\ pc' = "Aborted"
            /\ log' = log \cup {LogEntry("error", "something went wrong", UndefinedPath, "")}
            /\ UNCHANGED <<files, idx, disk, overwritten, failures>>
       ELSE \E d \in {Dest(files[idx])} : \E n \in {Disambiguator(files[idx], d)} : \E renameFails, hashFails, utimesFails \in BOOLEAN :
            LET f == files[idx]
                target == Candidate(d, n)
                needed == Candidate(d, 0) # f.fullname
                last == idx = Len(files)
                noDir == needed /\ (Resolve(target.dir) \notin dirs \/ ResolvePath(f.fullname) \notin DOMAIN disk)
                renamed == needed /\ ~renameFails /\ ~noDir
                fullname == FinalName(f, target, needed, renamed)
                there == IF renamed THEN ResolvePath(fullname) = ResolvePath(target) ELSE ResolvePath(fullname) \in DOMAIN disk
                content == IF ~there THEN 0 ELSE IF renamed THEN ContentAt(f.fullname) ELSE ContentAt(fullname)
                hashing == cfg.removeDuplicatesWithinFolder
                stamping == d.timestamp # 0
                count == (IF renameFails THEN 1 ELSE 0) + (IF hashFails THEN 1 ELSE 0) + (IF utimesFails THEN 1 ELSE 0)
                hashed == IF hashing
                          THEN [f EXCEPT !.duplicateIdx = [n |-> n, name |-> d.name], !.destFullname = fullname,
                                         !.hash = IF hashFails THEN f.hash ELSE sha256(content),
                                         !.pathHash = IF hashFails THEN f.pathHash ELSE PathHash(fullname, sha256(content))]
                          ELSE f
            IN /\ renameFails => needed /\ ~noDir
               /\ hashFails => hashing
               /\ hashing /\ ~there => hashFails
               /\ utimesFails => stamping
               /\ stamping /\ ~there => utimesFails
               /\ failures + count <= MaxFailures
               /\ failures' = failures + count
               /\ disk' = IF renamed THEN renameSync(f.fullname, target) ELSE disk
               /\ overwritten' = IF renamed /\ ResolvePath(target) \in DOMAIN disk THEN overwritten \cup {disk[ResolvePath(target)]} ELSE overwritten
               /\ files' = [files EXCEPT ![idx] = [hashed EXCEPT !.dest = fullname, !.utimes = IF stamping THEN fullname ELSE f.utimes]]
               /\ log' = log \cup (IF d.typed THEN {} ELSE {LogEntry("error", "could not determine file type", f.fullname, "")})
                             \cup (IF ~needed THEN {LogEntry("debug", "file does not need to be renamed", f.fullname, "")}
                                   ELSE IF renamed THEN {LogEntry("debug", "ok, could rename/move file", f.fullname, "")}
                                   ELSE {LogEntry("error", "could not rename file", f.fullname, "")})
                             \cup (IF hashFails THEN {LogEntry("error", "could not calculate hash", fullname, "")} ELSE {})
                             \cup (IF utimesFails THEN {LogEntry("error", "could not adjust file timestamps", fullname, "")} ELSE {})
               /\ idx' = IF last THEN 0 ELSE idx + 1
               /\ pc' = IF last THEN "WithinFolderDedup" ELSE pc
    /\ UNCHANGED <<cfg, listing, csvFiles, identities, fileTimestamps, dirs, texts, deleted, manifest, filesObj, run, call>>

\* ------------------------------------------------------ duplicate passes
\* struct: the arrays of the files with the same key, in the order in which
\* "for (let node in struct)" visits them (first file of each key)
Groups(fs, keys) == LET ks == [k \in 1..Len(fs) |-> k]
                        firsts == SelectSeq(ks, LAMBDA k : \A j \in 1..(k - 1) : keys[j] # keys[k])
                    IN Map(firsts, LAMBDA k : Map(SelectSeq(ks, LAMBDA j : keys[j] = keys[k]), LAMBDA j : fs[j]))

RECURSIVE Flatten(_)
Flatten(ss) == IF ss = <<>> THEN <<>> ELSE Head(ss) \o Flatten(Tail(ss))

\* The files the within-folder pass unlinks: all but the first of every sorted array
Victims == Flatten(Map(SelectSeq(Groups(files, Map(files, LAMBDA f : f.pathHash)), LAMBDA g : Len(g) > 1), LAMBDA g : Tail(dynamicSort(g))))

\* main, lines 1041-1067: the files in "failing" cannot be unlinked; a file
\* that is not on disk cannot.
WithinFolderDedup ==
    /\ pc = "WithinFolderDedup"
    /\ IF cfg.removeDuplicatesWithinFolder
       THEN LET victims == Victims
                missing == {v.id : v \in {v \in Range(victims) : ResolvePath(v.destFullname) \notin DOMAIN disk}}
            IN \E failing \in SUBSET {v.id : v \in Range(victims)} :
               LET gone == SelectSeq(victims, LAMBDA v : v.id \notin failing)
               IN /\ missing \subseteq failing
                  /\ failures + Cardinality(failing) <= MaxFailures
                  /\ failures' = failures + Cardinality(failing)
                  /\ disk' = [q \in DOMAIN disk \ {ResolvePath(v.destFullname) : v \in Range(gone)} |-> disk[q]]
                  /\ deleted' = deleted \o [k \in 1..Len(gone) |-> gone[k].destFullname]
                  /\ log' = log \cup {LogEntry("debug", "ok, could delete duplicate file", v.destFullname, "") : v \in Range(gone)}
                                \cup {LogEntry("error", "could not delete duplicate file", v.destFullname, "") : v \in {v \in Range(victims) : v.id \in failing}}
       ELSE UNCHANGED <<disk, deleted, log, failures>>
    /\ pc' = "ArchiveWideDedupReport"
    /\ UNCHANGED <<cfg, listing, files, idx, csvFiles, identities, fileTimestamps, dirs, texts, manifest, overwritten, filesObj, run, call>>

\* The files of the report: those whose destFullname is not in "deleted"
Surviving == SelectSeq(files, LAMBDA f : \A k \in 1..Len(deleted) : deleted[k] # f.destFullname)

ReportGroups == SelectSeq(Groups(Surviving, Map(Surviving, LAMBDA f : f.hash)), LAMBDA g : Len(g) > 1)

\* dynamicSort's comparator on an object without duplicateIdx: TypeError
SortThrows == \E k \in 1..Len(ReportGroups) : \E f \in Range(ReportGroups[k]) : f.duplicateIdx = UndefinedIdx

\* fullnames: the sorted blocks, a delimiter before every block but the first
RECURSIVE Fullnames(_)
Fullnames(gs) == IF gs = <<>> THEN <<>> ELSE LET before == Fullnames(SubSeq(gs, 1, Len(gs) - 1))
                                             IN before \o (IF before # <<>> THEN <<BlankLine>> ELSE <<>>) \o Map(dynamicSort(gs[Len(gs)]), LAMBDA f : f.destFullname)

\* main, lines 1071-1101
ArchiveWideDedupReport ==
    /\ pc = "ArchiveWideDedupReport"
    /\ IF ~cfg.saveDuplicateFileNamesTo
       THEN /\ pc' = "EmptyFolderCleanup"
            /\ UNCHANGED <<manifest, log, failures>>
       ELSE IF SortThrows
       THEN /\ pc' = "Aborted"
            /\ log' = log \cup {LogEntry("error", "something went wrong", UndefinedPath, "")}
            /\ UNCHANGED <<manifest, failures>>
       ELSE /\ pc' = "EmptyFolderCleanup"
            /\ \/ /\ manifest' = Fullnames(ReportGroups)
                  /\ log' = log \cup {LogEntry("info", "ok, could save list of duplicates", FullName(sourceDir, saveDuplicateFileNamesTo.name, saveDuplicateFileNamesTo.ext), "")}
                  /\ UNCHANGED failures
               \/ /\ MayFail
                  /\ failures' = failures + 1
                  /\ log' = log \cup {LogEntry("error", "could not save list of duplicates", FullName(sourceDir, saveDuplicateFileNamesTo.name, saveDuplicateFileNamesTo.ext), "")}
                  /\ UNCHANGED manifest
    /\ UNCHANGED <<cfg, listing, files, idx, csvFiles, identities, fileTimestamps, disk, dirs, texts, deleted, overwritten, filesObj, run, call>>

\* ---------------------------------------------------- EmptyFolderCleanup
\* readDirSync(sourceDir, true, undefined, true): the sub-folders that hold no file
Empties == {d \in dirs : d # Resolve(sourceDir) /\ d \notin DOMAIN texts /\ \A q \in DOMAIN disk : q.dir # d}

\* main, lines 1105-1107, and readDirSync, lines 660-671: a folder that cannot
\* be removed is logged.
EmptyFolderCleanup ==
    /\ pc = "EmptyFolderCleanup"
    /\ IF cfg.removeEmptyFolders
       THEN \E failing \in SUBSET Empties :
               /\ failures + Cardinality(failing) <= MaxFailures
               /\ failures' = failures + Cardinality(failing)
               /\ dirs' = dirs \ (Empties \ failing)
               /\ log' = log \cup {LogEntry("error", "could not delete empty folder", FullName(d, <<>>, ""), "") : d \in failing}
       ELSE UNCHANGED <<dirs, log, failures>>
    /\ pc' = "Done"
    /\ UNCHANGED <<cfg, listing, files, idx, csvFiles, identities, fileTimestamps, disk, texts, deleted, manifest, overwritten, filesObj, run, call>>

\* ------------------------------------------------------------ specification
Next == \/ Enumerate
        \/ ThumbnailElimination
        \/ IndexIdentities
        \/ IndexTimestampsAndExtractText
        \/ ClassifyAndRename
        \/ WithinFolderDedup
        \/ ArchiveWideDedupReport
        \/ EmptyFolderCleanup

Spec == Init /\ [][Next]_vars

\* ------------------------------------------------------------- second run
\* main started again, with the recursive switch, on the directory that a
\* first run without a failed operation left: the arrays and indexes of main
\* are new, the disk is as it is.
Rerun == /\ pc = "Done"
         /\ run = 1
         /\ failures = 0
         /\ run' = 2
         /\ pc' = "Enumerate"
         /\ files' = <<>>
         /\ idx' = 0
         /\ csvFiles' = <<>>
         /\ identities' = <<>>
         /\ fileTimestamps' = <<>>
         /\ deleted' = <<>>
         /\ filesObj' = {}
         /\ UNCHANGED <<cfg, listing, disk, dirs, texts, manifest, log, overwritten, failures, call>>

NextTwice == Next \/ Rerun

SpecTwice == Init /\ [][NextTwice]_vars

\* The same program started on the archive directories of MoreArchives.
InitMore == /\ pc = "Enumerate"
            /\ cfg \in Configurations
            /\ \E archive \in MoreArchives : listing \in Enumerations(archive)
            /\ dirs = {Cwd}
            /\ files = <<>>
            /\ idx = 0
            /\ csvFiles = <<>>
            /\ identities = <<>>
            /\ fileTimestamps = <<>>
            /\ disk = [p \in {FullName(Cwd, Pool[id].name, Pool[id].ext) : id \in Range(listing)} |-> CHOOSE id \in Range(listing) : FullName(Cwd, Pool[id].name, Pool[id].ext) = p]
            /\ texts = <<>>
            /\ deleted = <<>>
            /\ manifest = NoManifest
            /\ log = {}
            /\ overwritten = {}
            /\ failures = 0
            /\ filesObj = {}
            /\ run = 1
            /\ call = NoCall

SpecMore == InitMore /\ [][Next]_vars

\* ------------------------------------------------- the matching functions
\* Most tokens of a name that the matching functions are called with.
MaxTokens == 3

\* The tokens of the names: group ids, a contact key, group keys, uids and a
\* token that is nothing.
Tokens == {"7", "8", "A", "7-A", "7-B", "x", "u1", "u2"}

Names == UNION {[1..m -> Tokens] : m \in 0..MaxTokens}

\* The Identity Index of a contacts table and a groups table, the Timestamp
\* Index of a conversation table.
InitCall == /\ pc = "Call"
            /\ call \in [a : Names, identity : {NoIdentity}, timestamp : {NoTimestamp}]
            /\ identities = arrayToObject(Map(ContactRows, contactIdentity) \o Map(GroupRows, groupIdentity))
            /\ fileTimestamps = IndexRows(MessageRowsA, <<>>, sourceDir)
            /\ cfg \in {c \in Configurations : c.deleteThumbnailIfOriginalExists /\ c.removeDuplicatesWithinFolder /\ c.saveDuplicateFileNamesTo /\ c.removeEmptyFolders}
            /\ listing = <<>>
            /\ dirs = {Cwd}
            /\ files = <<>>
            /\ idx = 0
            /\ csvFiles = <<>>
            /\ disk = <<>>
            /\ texts = <<>>
            /\ deleted = <<>>
            /\ manifest = NoManifest
            /\ log = {}
            /\ overwritten = {}
            /\ failures = 0
            /\ filesObj = {}
            /\ run = 1

\* identityFromFilename(a, identities) and timestampFromFilename(a, fileTimestamps)
CallByName == /\ pc = "Call"
              /\ pc' = "Returned"
              /\ call' = [call EXCEPT !.identity = identityFromFilename(call.a, identities), !.timestamp = timestampFromFilename(call.a, fileTimestamps)]
              /\ UNCHANGED <<cfg, listing, files, idx, csvFiles, identities, fileTimestamps, disk, dirs, texts, deleted, manifest, log, overwritten, failures, filesObj, run>>

SpecCall == InitCall /\ [][CallByName]_vars

\* -------------------------------------------------------------- properties
Listed == Range(listing)

Tracked(id) == \E k \in 1..Len(files) : files[k].id = id

FileOf(id) == files[CHOOSE k \in 1..Len(files) : files[k].id = id]

OriginalPath(id) == FullName(Cwd, Pool[id].name, Pool[id].ext)

\* The paths at which the file of a Pool entry is on disk
PathsOf(id) == {p \in DOMAIN disk : disk[p] = id}

Logged(level, msg, path) == LogEntry(level, msg, path, "") \in log

\* The within-folder pass unlinked the file
Unlinked(f) == \E k \in 1..Len(deleted) : deleted[k] = f.destFullname

StillThere(f) == ResolvePath(f.destFullname) \in DOMAIN disk /\ disk[ResolvePath(f.destFullname)] = f.id

AfterWithinFolder == pc \in {"ArchiveWideDedupReport", "EmptyFolderCleanup", "Done"}

AllDeletesSucceeded == \A e \in log : e.msg # "could not delete duplicate file"

\* Every file of the array has been through the classify-and-rename loop
Classified == files # <<>> /\ \A k \in 1..Len(files) : files[k].dest # UndefinedPath

\* getHash was called for the file and threw
HashFailed(f) == cfg.removeDuplicatesWithinFolder /\ f.destFullname # UndefinedPath /\ f.hash = UndefinedHash

\* The time of the message the file was matched to, 0 when it was matched to none
Posted(f) == timestampFromFilename(f.name, fileTimestamps).fileTimestamp

\* C1: when the run is Done, every listed file is on disk at exactly one path
\* (its original or its destination), or the thumbnail pass deleted it because
\* its original was listed, or the within-folder pass deleted it while a file
\* with the same content is left in the same destination folder.
C1_NoDataLoss ==
    pc = "Done" => \A id \in Listed :
        \/ /\ Tracked(id)
           /\ Cardinality(PathsOf(id)) = 1
           /\ PathsOf(id) \subseteq {OriginalPath(id), ResolvePath(FileOf(id).dest)}
        \/ /\ ~Tracked(id)
           /\ PathsOf(id) = {}
           /\ HasOriginal(Pool[id].name)
        \/ /\ Tracked(id)
           /\ PathsOf(id) = {}
           /\ Unlinked(FileOf(id))
           /\ \E p \in DOMAIN disk : p.dir = Resolve(FileOf(id).destFullname.dir) /\ Pool[disk[p]].content = Pool[id].content

\* C2: no rename replaces a file, no two files of the run have the same final
\* path, and where a rename is due the probe stops at the first free path:
\* every smaller disambiguator names a path that exists, the chosen one does not.
C2_NoSilentOverwrite ==
    /\ overwritten = {}
    /\ \A j, k \in 1..Len(files) : j # k /\ files[j].dest # UndefinedPath /\ files[k].dest # UndefinedPath => ResolvePath(files[j].dest) # ResolvePath(files[k].dest)
    /\ pc = "ClassifyAndRename" /\ ~Throws(files[idx]) =>
        \A d \in {Dest(files[idx])} : \A n \in {Disambiguator(files[idx], d)} :
            Candidate(d, 0) # files[idx].fullname =>
                /\ ~pathExistsSync(Candidate(d, n))
                /\ n <= Len(listing)
                /\ \A m \in 0..(n - 1) : pathExistsSync(Candidate(d, m))

\* C2 witness: a file was renamed to a name with disambiguator 1 and is on disk there.
C2_Witness ==
    \E k \in 1..Len(files) : /\ files[k].dest # UndefinedPath
                             /\ files[k].dest # files[k].fullname
                             /\ files[k].dest.name # <<>>
                             /\ Head(files[k].dest.name) = Numeral(1)
                             /\ ResolvePath(files[k].dest) \in DOMAIN disk
                             /\ disk[ResolvePath(files[k].dest)] = files[k].id

\* C3: after the within-folder pass, with every delete succeeding, for every
\* folder and every computed content hash exactly one of the files that ended
\* in that folder with that hash is on disk.
C3_OneSurvivorPerFolder ==
    AfterWithinFolder /\ cfg.removeDuplicatesWithinFolder /\ AllDeletesSucceeded =>
        \A f \in Range(files) : f.hash # UndefinedHash =>
            Cardinality({g \in Range(files) : g.hash = f.hash /\ Resolve(g.destFullname.dir) = Resolve(f.destFullname.dir) /\ StillThere(g)}) = 1

\* C4: a file whose hashing failed is logged, is not unlinked by the
\* within-folder pass, shares its grouping key with no other file, is not in
\* the duplicates file, and the loop goes on behind it.
C4_HashFailureSkipsFile ==
    \A k \in 1..Len(files) : HashFailed(files[k]) =>
        /\ Logged("error", "could not calculate hash", files[k].destFullname)
        /\ ~Unlinked(files[k])
        /\ \A j \in 1..Len(files) : j # k /\ files[j].destFullname # UndefinedPath => files[j].pathHash # files[k].pathHash /\ files[j].hash # files[k].hash
        /\ manifest # NoManifest => \A m \in 1..Len(manifest) : manifest[m] # files[k].destFullname
        /\ pc = "ClassifyAndRename" => idx > k

\* The lines of the duplicates file that name the file
Listings(f) == {m \in 1..Len(manifest) : manifest[m] = f.destFullname}

\* The computed hash of the file a line of the duplicates file names
HashAt(m) == (CHOOSE f \in Range(files) : f.destFullname = manifest[m]).hash

\* C5: in the duplicates file every file that is left and whose computed hash
\* is that of another file that is left is named exactly once; no unlinked
\* file and no file whose content no other file that is left has is named; the
\* files of one hash are contiguous and a single blank line parts two hashes.
C5_Manifest ==
    manifest # NoManifest =>
        /\ \A f \in Range(files) :
              /\ ~Unlinked(f) /\ f.hash # UndefinedHash /\ (\E g \in Range(files) : g.id # f.id /\ ~Unlinked(g) /\ g.hash = f.hash) => Cardinality(Listings(f)) = 1
              /\ Listings(f) # {} => ~Unlinked(f) /\ \E g \in Range(files) : g.id # f.id /\ ~Unlinked(g) /\ Pool[g.id].content = Pool[f.id].content
              /\ Cardinality(Listings(f)) <= 1
        /\ \A m \in 1..Len(manifest) : manifest[m] = BlankLine \/ \E f \in Range(files) : f.destFullname = manifest[m]
        /\ \A m \in 1..Len(manifest) : manifest[m] = BlankLine => m > 1 /\ m < Len(manifest) /\ manifest[m - 1] # BlankLine /\ manifest[m + 1] # BlankLine
        /\ \A j, k \in 1..Len(manifest) : j < k /\ manifest[j] # BlankLine /\ manifest[k] # BlankLine =>
              ((\A m \in j..k : manifest[m] # BlankLine) <=> HashAt(j) = HashAt(k))

\* C6: with every delete succeeding, a file that the within-folder pass left
\* was not posted later than a hashed file of its folder and hash that the
\* pass unlinked.
C6_FirstPostedIsKept ==
    AfterWithinFolder /\ cfg.removeDuplicatesWithinFolder /\ AllDeletesSucceeded =>
        \A v, s \in Range(files) :
            Unlinked(v) /\ ~Unlinked(s) /\ v.hash # UndefinedHash /\ s.pathHash = v.pathHash /\ Posted(v) # 0 /\ Posted(s) # 0 => Posted(s) <= Posted(v)

\* The entry the rows.map callback makes of each non-text row of a table that was read
TableEntries(csv) == LET rows == SelectSeq(csv.rows, IsFileRow)
                     IN [i \in 1..Len(rows) |-> [uid |-> rows[i].uid, fileTimestamp |-> rows[i].created_at, destDir |-> csv.destDir, ext |-> RowExt(rows[i])]]

\* The entries of all tables read so far, in the order of the rows
ParsedEntries == Flatten([k \in 1..Len(csvFiles) |-> TableEntries(csvFiles[k])])

EntriesOf(uid) == SelectSeq(ParsedEntries, LAMBDA e : e.uid = uid)

Collision(uid) == Len(EntriesOf(uid)) >= 2

FatalLogged(uid) == LogEntry("fatal", "file timestamp collision", UndefinedPath, uid) \in log

\* C7 as stated: a uid that two non-text rows carry is logged at fatal
\* severity and the Timestamp Index holds the entry of the earlier row.
C7_EarlierEntryKept ==
    \A uid \in DOMAIN fileTimestamps : (Collision(uid) => FatalLogged(uid)) /\ fileTimestamps[uid] = EntriesOf(uid)[1]

\* C7, amended: a uid that two non-text rows carry is logged at fatal
\* severity, every non-text row that was read has an entry, and the Timestamp
\* Index holds under each uid the entry of the last row that carries it.
C7_LaterEntryStored ==
    /\ \A k \in 1..Len(ParsedEntries) : ParsedEntries[k].uid \in DOMAIN fileTimestamps
    /\ \A uid \in DOMAIN fileTimestamps : (Collision(uid) => FatalLogged(uid)) /\ fileTimestamps[uid] = EntriesOf(uid)[Len(EntriesOf(uid))]

\* C7 witness: two rows carried one uid, the collision is logged, the entry
\* differs from that of the earlier row, and the file loop has begun.
C7_Witness ==
    /\ pc = "ClassifyAndRename"
    /\ \E uid \in DOMAIN fileTimestamps : Collision(uid) /\ FatalLogged(uid) /\ fileTimestamps[uid] # EntriesOf(uid)[1]
    /\ \E k \in 2..Len(ParsedEntries) : Collision(ParsedEntries[k - 1].uid) /\ ~Collision(ParsedEntries[k].uid)

\* C8: for every setting of the three optional stages, once every file is
\* classified the run does not stop before Done, and a run that is Done with
\* the report enabled has written the duplicates file unless that write failed.
C8_OptionalStagesIndependent ==
    /\ Classified => pc # "Aborted"
    /\ pc = "Done" /\ cfg.saveDuplicateFileNamesTo /\ (\A e \in log : e.msg # "could not save list of duplicates") => manifest # NoManifest

\* C9: a run stops before Done only when the source directory is missing or holds no file.
C9_OnlyMissingOrEmptySourceAborts ==
    pc = "Aborted" => Resolve(sourceDir) \notin dirs \/ listing = <<>>

\* The rename of the file threw
RenameFailed(f) == Logged("error", "could not rename file", f.fullname)

\* C10: a file whose rename failed is logged, keeps its original path and
\* content until the within-folder pass unlinks it there, has its original
\* path as final path, for the hash and for the file times, and the loop goes
\* on behind it.
C10_RenameFailureKeepsOriginal ==
    \A k \in 1..Len(files) : RenameFailed(files[k]) =>
        /\ files[k].dest = files[k].fullname
        /\ PathsOf(files[k].id) = {ResolvePath(files[k].fullname)} \/ (PathsOf(files[k].id) = {} /\ Unlinked(files[k]))
        /\ files[k].utimes \in {UndefinedPath, files[k].fullname}
        /\ Posted(files[k]) # 0 => files[k].utimes = files[k].fullname
        /\ cfg.removeDuplicatesWithinFolder => files[k].destFullname = files[k].fullname
        /\ files[k].hash # UndefinedHash => files[k].hash = sha256(Pool[files[k].id].content) /\ files[k].pathHash = PathHash(files[k].fullname, files[k].hash)
        /\ pc = "ClassifyAndRename" => idx > k

\* C10 witness: the rename of a file failed, a later file was renamed, and the
\* run is Done with the first file hashed and stamped at its original path.
C10_Witness ==
    /\ pc = "Done"
    /\ \E j, k \in 1..Len(files) : /\ j < k
                                   /\ RenameFailed(files[j])
                                   /\ files[j].hash # UndefinedHash
                                   /\ files[j].utimes = files[j].fullname
                                   /\ Logged("debug", "ok, could rename/move file", files[k].fullname)

\* C11: when the source directory is missing or holds no file, the run goes
\* from Enumerate to Aborted and to no other stage: no file is deleted or
\* renamed, no folder is made, no transcript and no duplicates file is written.
C11_FatalStartChangesNothing ==
    Resolve(sourceDir) \notin dirs \/ listing = <<>> =>
        /\ pc \in {"Enumerate", "Aborted"}
        /\ files = <<>>
        /\ DOMAIN disk = {OriginalPath(id) : id \in Listed}
        /\ dirs \subseteq {Resolve(sourceDir)}
        /\ texts = <<>>
        /\ deleted = <<>>
        /\ overwritten = {}
        /\ manifest = NoManifest

\* C11 witness: the run is Aborted on a source directory that exists and
\* holds no file, with every optional stage enabled.
C11_Witness ==
    /\ pc = "Aborted"
    /\ listing = <<>>
    /\ Resolve(sourceDir) \in dirs
    /\ Logged("error", "something went wrong", UndefinedPath)
    /\ cfg.deleteThumbnailIfOriginalExists /\ cfg.removeDuplicatesWithinFolder /\ cfg.saveDuplicateFileNamesTo /\ cfg.removeEmptyFolders
    /\ manifest = NoManifest

\* The thumbnail loop is over and no file has been renamed yet
AfterThumbnails == pc \in {"IndexIdentities", "IndexTimestampsAndExtractText"}

\* The working name the thumbnail pass gave the file
WorkingName(id) == IF FileOf(id).tmpSet THEN FileOf(id).tmpName ELSE UndefinedName

Untouched(id) == Tracked(id) /\ PathsOf(id) = {OriginalPath(id)}

\* Another file of the listing has the name of the file with "thumbnail" replaced by "media"
OriginalListed(id) == \E o \in Listed : Pool[o].name # Pool[id].name /\ Pool[o].name = nameRed(Pool[id].name)

Stored == {disk[p] : p \in DOMAIN disk}

\* C13: with deleteThumbnailIfOriginalExists and removeDuplicatesWithinFolder
\* both disabled no step of the run takes a file of the listing from the
\* disk, and in every configuration the report stage leaves the disk as it is.
C13_NoDeletionWhenDisabled ==
    [][/\ ~cfg.deleteThumbnailIfOriginalExists /\ ~cfg.removeDuplicatesWithinFolder => Stored' = Stored /\ Stored = Listed
       /\ pc = "ArchiveWideDedupReport" => disk' = disk /\ deleted' = deleted]_vars

\* C13 witness: a run with both deletions disabled is Done; it renamed a file,
\* a thumbnail whose original is listed and two files of one content are on disk.
C13_Witness ==
    /\ pc = "Done"
    /\ ~cfg.deleteThumbnailIfOriginalExists /\ ~cfg.removeDuplicatesWithinFolder
    /\ Stored = Listed
    /\ \E id \in Listed : PathsOf(id) # {OriginalPath(id)}
    /\ \/ \E id \in Listed : OriginalListed(id)
       \/ \E j, k \in Listed : j # k /\ Pool[j].content = Pool[k].content

\* The archive of the scenario: a contacts table with the identity ABCD1234,
\* the table message_uid001_ABCD1234 with one text row, the media file uid001
Scenario == Listed = {9, 10, 11}

DisplayName == contactIdentity(ContactRowsMuster[1]).fullname

\* The one line of the transcript of the scenario
HelloLine == [stamp |-> strftime(MessageRowsHello[1].created_at), text |-> "hello", author |-> DisplayName]

\* C14 as stated: when the run on the scenario is Done without a failure, a
\* folder named after the display name exists and holds a transcript of one
\* line and the media file, named with the formatted timestamp alone.
C14_MediaMovedToContactFolder ==
    pc = "Done" /\ Scenario /\ failures = 0 =>
        /\ Cwd \o << <<DisplayName>> >> \in dirs
        /\ Cwd \o << <<DisplayName>> >> \in DOMAIN texts
        /\ Len(texts[Cwd \o << <<DisplayName>> >>]) = 1
        /\ PathsOf(11) = {FullName(Cwd \o << <<DisplayName>> >>, <<strftime(MessageRowsHello[1].created_at)>>, "jpg")}

\* C14, amended: the Timestamp Index of the scenario stays empty; when the run
\* is Done without a failure the folder is named uid001_<display name>, its
\* transcript is the one line of the row with the display name as author, the
\* tables are in place, and the media file is in the source directory under
\* its own name with the sniffed extension.
C14_MediaStaysInSourceFolder ==
    Scenario =>
        /\ fileTimestamps = <<>>
        /\ pc = "Done" /\ failures = 0 =>
            /\ dirs = {Cwd, Cwd \o << <<"uid001", DisplayName>> >>}
            /\ texts = [d \in {Cwd \o << <<"uid001", DisplayName>> >>} |-> <<HelloLine>>]
            /\ PathsOf(11) = {FullName(Cwd, <<"uid001">>, FileTypeFromFile(Pool[11].content))}
            /\ PathsOf(9) = {OriginalPath(9)} /\ PathsOf(10) = {OriginalPath(10)}

\* C14 witness: the run on the scenario is Done without a failure, with the
\* transcript written and the media file renamed.
C14_Witness ==
    /\ pc = "Done" /\ Scenario /\ failures = 0
    /\ DOMAIN texts # {}
    /\ Logged("debug", "ok, could rename/move file", OriginalPath(11))

\* The loop over the tables is over and the run went on
TablesParsed == pc \in {"ClassifyAndRename", "WithinFolderDedup", "ArchiveWideDedupReport", "EmptyFolderCleanup", "Done"}

\* The rows of the tables that were read whose type is not 'text' in any
\* spelling: <<k, i>> is row i of table k
NonTextRows == UNION {{<<k, i>> : i \in {j \in 1..Len(csvFiles[k].rows) : csvFiles[k].rows[j].type \notin {"text", "Text", "TEXT"}}} : k \in 1..Len(csvFiles)}

RowAt(q) == csvFiles[q[1]].rows[q[2]]

\* Row q is read before row r
ReadBefore(q, r) == q[1] < r[1] \/ (q[1] = r[1] /\ q[2] < r[2])

\* C16 as stated: after the tables are parsed the keys of the Timestamp Index
\* are the uids of the non-text rows of the tables that were read, and the
\* entry under the uid of each such row carries the folder of the row's table.
C16_EntryCarriesFolderOfItsTable ==
    TablesParsed =>
        /\ DOMAIN fileTimestamps = {RowAt(q).uid : q \in NonTextRows}
        /\ \A q \in NonTextRows : fileTimestamps[RowAt(q).uid].uid = RowAt(q).uid /\ fileTimestamps[RowAt(q).uid].destDir = csvFiles[q[1]].destDir

\* C16, amended: the keys are those uids, and the entry under a uid carries
\* the time, the extension and the table folder of the last non-text row that
\* has the uid; a row that a later row shares its uid with has no entry of its own.
C16_EntryCarriesFolderOfLastTable ==
    TablesParsed =>
        /\ DOMAIN fileTimestamps = {RowAt(q).uid : q \in NonTextRows}
        /\ \A q \in NonTextRows : (\A r \in NonTextRows : RowAt(r).uid = RowAt(q).uid => r = q \/ ReadBefore(r, q)) =>
               fileTimestamps[RowAt(q).uid] = [uid |-> RowAt(q).uid, fileTimestamp |-> RowAt(q).created_at, destDir |-> csvFiles[q[1]].destDir, ext |-> RowExt(RowAt(q))]

\* C16 witness: two tables with different folders were read, each has a
\* non-text row with the same uid, one of them has a text row, and the file
\* loop has begun.
C16_Witness ==
    /\ pc = "ClassifyAndRename"
    /\ \E q, r \in NonTextRows : q[1] # r[1] /\ RowAt(q).uid = RowAt(r).uid /\ csvFiles[q[1]].destDir # csvFiles[r[1]].destDir
    /\ \E k \in 1..Len(csvFiles) : \E i \in 1..Len(csvFiles[k].rows) : csvFiles[k].rows[i].type = "text" /\ csvFiles[k].rows[i].uid \notin DOMAIN fileTimestamps

\* The file was given to fileType.fromFile and no type came back
Unsniffed(f) == ~IsTabular(f) /\ FileTypeFromFile(Pool[f.id].content) = ""

\* The extension hint of the Timestamp Index entry the file matches, "" when none
Hint(f) == timestampFromFilename(f.name, fileTimestamps).ext

Kept(f) == PathsOf(f.id) # {} \/ Unlinked(f)

\* C17 as stated: a classified file for which sniffing gave no type is kept
\* and the extension of its final path is its original extension, whatever
\* Timestamp Index entry it matched.
C17_UnsniffedKeepsExtension ==
    \A k \in 1..Len(files) : files[k].dest # UndefinedPath /\ Unsniffed(files[k]) =>
        Kept(files[k]) /\ files[k].dest.ext = files[k].ext

\* C17, amended: such a file is kept; the extension of its final path is the
\* hint of the entry it matched when that entry has one and the rename did
\* not fail, and its original extension otherwise; the undetermined type is
\* logged exactly when there is no hint.
C17_UnsniffedTakesHint ==
    \A k \in 1..Len(files) : files[k].dest # UndefinedPath /\ Unsniffed(files[k]) =>
        /\ Kept(files[k])
        /\ files[k].dest.ext = IF Hint(files[k]) # "" /\ ~RenameFailed(files[k]) THEN Hint(files[k]) ELSE files[k].ext
        /\ Logged("error", "could not determine file type", files[k].fullname) <=> Hint(files[k]) = ""

\* C17 witness: sniffing gave no type for a classified file with an extension
\* that matched an entry with another extension as hint; the file is on disk
\* with the hint as extension, and the run is Done.
C17_Witness ==
    /\ pc = "Done"
    /\ \E k \in 1..Len(files) :
        /\ files[k].dest # UndefinedPath /\ Unsniffed(files[k])
        /\ files[k].ext # "" /\ Hint(files[k]) \notin {"", files[k].ext}
        /\ files[k].dest.ext = Hint(files[k]) /\ PathsOf(files[k].id) = {ResolvePath(files[k].dest)}

\* C18: a classified file with the extension csv, txt or log has its own
\* folder as destination folder, its working name as destination name and
\* its own extension, whatever tokens its name holds.
C18_TablesTextsLogsStay ==
    \A k \in 1..Len(files) : files[k].dest # UndefinedPath /\ files[k].ext \in {"csv", "txt", "log"} =>
        /\ Resolve(files[k].dest.dir) = Resolve(files[k].dir)
        /\ files[k].dest.name = WorkingName(files[k].id)
        /\ files[k].dest.ext = files[k].ext

\* No write of a transcript threw
TranscriptsWritten == \A e \in log : e.msg # "could not write text file"

\* C19: after the tables are parsed, with every transcript write succeeding,
\* the transcript of the folder of each table that was read holds every line
\* extracted from that table, also when another table has the same folder.
C19_TranscriptHoldsEveryLine ==
    TablesParsed /\ TranscriptsWritten =>
        \A k \in 1..Len(csvFiles) : \A l \in Range(csvFiles[k].texts) :
            /\ Resolve(csvFiles[k].destDir) \in DOMAIN texts
            /\ l \in Range(texts[Resolve(csvFiles[k].destDir)])

\* The cells of table k that hold a text: <<i, s>> is column s of row i
TextCells(k) == {q \in (1..Len(csvFiles[k].rows)) \X {"body", "caption"} : csvFiles[k].rows[q[1]][q[2]].kind = "text"}

\* The display name of the identity of row i of table k when it is a key of the Identity Index, "" otherwise
AuthorOf(k, i) == IF \E n \in 1..Len(identities) : identities[n].identity = csvFiles[k].rows[i].identity
                  THEN identities[CHOOSE n \in 1..Len(identities) : identities[n].identity = csvFiles[k].rows[i].identity].fullname
                  ELSE ""

\* The line '[formatted-timestamp] cleaned-text [author]' of a cell
LineOf(k, q) == [stamp |-> strftime(csvFiles[k].rows[q[1]].created_at), text |-> cleanText(csvFiles[k].rows[q[1]][q[2]].text), author |-> AuthorOf(k, q[1])]

\* (timestamp, row position) of row i is not behind that of row j
NotBehind(k, i, j) == LET a == csvFiles[k].rows[i].created_at
                          b == csvFiles[k].rows[j].created_at
                      IN a < b \/ (a = b /\ i <= j)

\* C20: the lines of the transcript of a table are, one to one, the lines of
\* the cells of its body and caption columns that hold a text (an empty cell
\* and a JSON array give none), each with the formatted timestamp, the cleaned
\* text and the author exactly when the row's identity is a key of the
\* Identity Index, in ascending order of (timestamp, row position).  Stated
\* for the states of the loop over the tables and the state that follows it:
\* no later stage changes a table.
C20_TranscriptOrderAndFormat ==
    pc = "IndexTimestampsAndExtractText" \/ (pc = "ClassifyAndRename" /\ idx = 1) => \A k \in 1..Len(csvFiles) :
        \E cell \in [1..Len(csvFiles[k].texts) -> TextCells(k)] :
            /\ \A q \in TextCells(k) : \E j \in DOMAIN cell : cell[j] = q
            /\ \A i, j \in DOMAIN cell : i # j => cell[i] # cell[j]
            /\ \A j \in DOMAIN cell : csvFiles[k].texts[j] = LineOf(k, cell[j])
            /\ \A i, j \in DOMAIN cell : i < j => NotBehind(k, cell[i][1], cell[j][1])

\* C20 witness: a table was read whose transcript has three lines in another
\* order than their rows, one with an author and one without, and which has
\* a row whose body is a JSON array.
C20_Witness ==
    pc = "ClassifyAndRename" /\ idx = 1 /\ \E k \in 1..Len(csvFiles) :
        /\ Len(csvFiles[k].texts) = 3
        /\ csvFiles[k].texts[1] = LineOf(k, <<3, "body">>)
        /\ csvFiles[k].texts[1].author # ""
        /\ csvFiles[k].texts[3] = LineOf(k, <<2, "body">>)
        /\ csvFiles[k].texts[3].author = ""
        /\ \E i \in 1..Len(csvFiles[k].rows) : csvFiles[k].rows[i].body.kind = "array"

\* The uids of the non-text rows of the listed tables, and the keys and ids of
\* the identities of the listed contacts and groups tables
ListedUids == UNION {{Pool[id].rows[i].uid : i \in {j \in 1..Len(Pool[id].rows) : IsFileRow(Pool[id].rows[j])}} : id \in {t \in Listed : Pool[t].ext = "csv" /\ Pool[t].name \notin skipFilenames}}

ListedIdentities == UNION {{contactIdentity(Pool[id].rows[i]).identity : i \in 1..Len(Pool[id].rows)} : id \in {t \in Listed : Pool[t].name = specialFilenames.contacts}}

\* No file that the naming steps apply to has a token left that is a uid of
\* the Timestamp Index or a key of the Identity Index
NoTokensLeft == \A p \in DOMAIN disk : p.ext \notin {"csv", "txt"} => \A k \in 1..Len(p.name) : p.name[k] \notin ListedUids \cup ListedIdentities

\* C15: in a second run on the directory that a first run left, with no
\* matching token left in a file name, no step changes the files on disk, and
\* the destination computed for each file is the path it has.
C15_SecondRunChangesNothing ==
    [][run = 2 /\ NoTokensLeft =>
          /\ disk' = disk
          /\ pc = "ClassifyAndRename" /\ ~Throws(files[idx]) => Candidate(Dest(files[idx]), 0) = files[idx].fullname]_vars

\* ------------------------------------------------------------------ C21
\* The tables the table loop has passed that are skip-listed (contacts and
\* groups are on the skip list).
SkippedTables == {c \in Range(csvFiles) : c.skipped}

\* The file the file loop is about to classify.
Current == files[idx]

Classifying == pc = "ClassifyAndRename" /\ idx \in 1..Len(files) /\ ~Throws(files[idx])

\* C21: for an administrative or skip-listed table no folder is created, no
\* row of it enters the Timestamp Index, no transcript is written for it, and
\* no file is assigned a destination folder derived from it.
C21_SkippedTableGivesNoFolder ==
    \A c \in SkippedTables :
        /\ Resolve(c.destDir) \notin dirs
        /\ \A uid \in DOMAIN fileTimestamps : fileTimestamps[uid].destDir # c.destDir
        /\ Resolve(c.destDir) \notin DOMAIN texts
        /\ Classifying => Dest(Current).dir # c.destDir

\* The first three parts of C21 alone.
C21_SkippedTableIsNotIndexed ==
    \A c \in SkippedTables :
        /\ Resolve(c.destDir) \notin dirs
        /\ \A uid \in DOMAIN fileTimestamps : fileTimestamps[uid].destDir # c.destDir
        /\ Resolve(c.destDir) \notin DOMAIN texts

\* ------------------------------------------------------------------ C22
\* The stages in which the Identity Index is complete.
IdentitiesBuilt == pc \in {"IndexTimestampsAndExtractText", "ClassifyAndRename", "WithinFolderDedup", "ArchiveWideDedupReport", "EmptyFolderCleanup", "Done"}

\* The rows of the contacts tables and of the groups tables of the listing.
ContactRowsRead == ReadAll(TablesNamed(specialFilenames.contacts))

GroupRowsRead == ReadAll(TablesNamed(specialFilenames.groups))

\* The words of a contact in the order last name, first name, nickname, identity.
WordsOf(o) == o.lastname \o o.firstname \o o.nick_name \o <<o.identity>>

\* The non-empty words that no earlier word equals but for the case of letters.
FirstOccurrences(w) == LET ks == [k \in 1..Len(w) |-> k]
                           kept == SelectSeq(ks, LAMBDA k : w[k] # "" /\ \A j \in 1..(k - 1) : ToLowerCase(w[j]) # ToLowerCase(w[k]))
                       IN [k \in 1..Len(kept) |-> w[kept[k]]]

RECURSIVE SpaceJoin(_)
SpaceJoin(w) == IF w = <<>> THEN "" ELSE IF Len(w) = 1 THEN w[1] ELSE w[1] \o " " \o SpaceJoin(Tail(w))

GroupKey(o) == o.id \o "-" \o o.creator

\* The display name of a group before it is made a valid file name.
GroupName(o) == IF Trim(o.groupname) # "" THEN Trim(o.groupname) \o " " \o o.id ELSE GroupKey(o)

\* The record of the Identity Index with the given key.
RecordsOf(key) == {k \in 1..Len(identities) : identities[k].identity = key}

\* The display names the Identity Index holds for a key.
NamesOf(key) == {identities[k].fullname : k \in RecordsOf(key)}

\* C22 as stated: the display name of a contact is the space-join of its
\* distinct non-empty words, the key of a group is groupId-creatorId and its
\* display name is the trimmed group name, a blank and the groupId (the key
\* when the name is empty), and every key has exactly one record.
C22_DisplayNamesAsJoined ==
    IdentitiesBuilt =>
        /\ \A k \in 1..Len(ContactRowsRead) : NamesOf(ContactRowsRead[k].identity) = {SpaceJoin(FirstOccurrences(WordsOf(ContactRowsRead[k])))}
        /\ \A k \in 1..Len(GroupRowsRead) : NamesOf(GroupKey(GroupRowsRead[k])) = {GroupName(GroupRowsRead[k])}
        /\ \A k \in 1..Len(identities) : Cardinality(RecordsOf(identities[k].identity)) = 1

\* C22, amended: as above, with every display name made a valid file name
\* of the platform (validPlatformName) after it is put together.
C22_DisplayNamesSanitized ==
    IdentitiesBuilt => \A cr \in {ContactRowsRead} : \A gr \in {GroupRowsRead} :
        /\ \A k \in 1..Len(cr) : NamesOf(cr[k].identity) = {validPlatformName(SpaceJoin(FirstOccurrences(WordsOf(cr[k]))))}
        /\ \A k \in 1..Len(gr) : NamesOf(GroupKey(gr[k])) = {validPlatformName(GroupName(gr[k]))}
        /\ \A k \in 1..Len(gr) : \A r \in RecordsOf(GroupKey(gr[k])) : identities[r].id = gr[k].id
        /\ \A k \in 1..Len(identities) : Cardinality(RecordsOf(identities[k].identity)) = 1
        /\ \A k \in 1..Len(identities) : identities[k].identity \in {o.identity : o \in Range(cr)} \cup {GroupKey(o) : o \in Range(gr)}

\* A contact with a repeated word and groups with a name to be trimmed, a
\* blank name, a name with a '/' and a repeated key are in the index.
C22_Witness == /\ pc = "Done"
               /\ Len(ContactRowsRead) = 1 /\ Len(GroupRowsRead) = 4 /\ Len(identities) = 4
               /\ NamesOf("A") = {"Max A"} /\ NamesOf("7-A") = {"R.D 7"} /\ NamesOf("8-A") = {"8-A"} /\ NamesOf("7-B") = {"R 7"}

\* ------------------------------------------------------------------ C23
\* The stages in the order in which main runs them.
StageOrder == <<"Enumerate", "ThumbnailElimination", "IndexIdentities", "IndexTimestampsAndExtractText", "ClassifyAndRename", "WithinFolderDedup", "ArchiveWideDedupReport", "EmptyFolderCleanup", "Done">>

\* The stages in the order of the claim.
StatedOrder == <<"Enumerate", "IndexIdentities", "IndexTimestampsAndExtractText", "ThumbnailElimination", "ClassifyAndRename", "WithinFolderDedup", "ArchiveWideDedupReport", "EmptyFolderCleanup", "Done">>

\* A step keeps to an order of the stages: it stays in its stage, goes to a
\* later one, or ends the run in main's catch.
KeepsTo(order) == pc' = "Aborted" \/ IndexOf(order, pc) <= IndexOf(order, pc')

\* A step deletes or marks a thumbnail.
ThumbnailStep == \E k \in 1..Len(files) : \/ k > Len(files') /\ Len(files') < Len(files)
                                          \/ k <= Len(files') /\ Len(files') = Len(files) /\ files'[k].tmpSet /\ ~files[k].tmpSet /\ files'[k].tmpName # files[k].name

\* A step renames a file or tries to.
RenameStep == \E p \in {"ok, could rename/move file", "could not rename file"} : {e \in log' : e.msg = p} # {e \in log : e.msg = p}

IndexesComplete == IdentitiesBuilt /\ pc # "IndexTimestampsAndExtractText"

\* C23 as stated: the stages follow each other in the order Enumerate,
\* IndexIdentities, IndexTimestampsAndExtractText, ThumbnailElimination,
\* ClassifyAndRename, WithinFolderDedup, ArchiveWideDedupReport,
\* EmptyFolderCleanup, Done; no thumbnail is deleted or marked and no file
\* is renamed before both indexes are built.
C23_StagesAsStated == [][KeepsTo(StatedOrder) /\ (ThumbnailStep => IndexesComplete) /\ (RenameStep => IndexesComplete)]_vars

\* C23, amended: the stages follow each other in the order Enumerate,
\* ThumbnailElimination, IndexIdentities, IndexTimestampsAndExtractText,
\* ClassifyAndRename, WithinFolderDedup, ArchiveWideDedupReport,
\* EmptyFolderCleanup, Done; a thumbnail is deleted or marked only in the
\* thumbnail stage, the indexes change only in their stages, and no file is
\* renamed before both indexes are complete.
C23_StagesInOrder == [][/\ KeepsTo(StageOrder)
                        /\ ThumbnailStep => pc = "ThumbnailElimination"
                        /\ identities' # identities => pc = "IndexIdentities"
                        /\ fileTimestamps' # fileTimestamps => pc = "IndexTimestampsAndExtractText"
                        /\ RenameStep => pc = "ClassifyAndRename" /\ IndexesComplete]_vars

\* A run that deleted a thumbnail, built both indexes, renamed a file and ended.
C23_Witness == /\ pc = "Done"
               /\ identities # <<>>
               /\ DOMAIN fileTimestamps # {}
               /\ \E e \in log : e.msg = "ok, could delete thumbnail file"
               /\ \E e \in log : e.msg = "ok, could rename/move file"

\* ------------------------------------------------------------------ C24
\* The file was given a rank: a disambiguator and a final name (line 1017).
Ranked(f) == f.duplicateIdx # UndefinedIdx

\* a comes before b in the order of the ranks: the smaller disambiguator, and
\* for the same disambiguator the name that collates first.
Outranks(a, b) == \/ a.duplicateIdx.n < b.duplicateIdx.n
                  \/ a.duplicateIdx.n = b.duplicateIdx.n /\ KeyLess(NameKey(a.duplicateIdx.name), NameKey(b.duplicateIdx.name))

\* The files of the group of the within-folder pass that f is in.
FolderGroup(f) == {g \in Range(files) : g.pathHash = f.pathHash}

\* The files of the group of the manifest pass that f is in.
HashGroup(f) == {g \in Range(files) : ~Unlinked(g) /\ g.hash = f.hash}

\* The file a line of the duplicates file names.
FileOfLine(m) == CHOOSE f \in Range(files) : f.destFullname = manifest[m]

\* The within-folder pass kept the first of every group in the order of the
\* ranks and took the others for deletion.
SurvivorIsFirst == \A f \in Range(files) : \A g \in FolderGroup(f) \ {f} :
                       /\ Unlinked(g) => \E h \in FolderGroup(f) \ {g} : ~Outranks(g, h)
                       /\ Outranks(f, g) => Unlinked(g) \/ Logged("error", "could not delete duplicate file", g.destFullname)
                       /\ (\A h \in FolderGroup(f) \ {f} : Outranks(f, h)) => ~Unlinked(f)

\* The lines of one block of the duplicates file are in the order of the ranks.
ManifestInOrder == \A m \in 1..(Len(manifest) - 1) : manifest[m] # BlankLine /\ manifest[m + 1] # BlankLine => ~Outranks(FileOfLine(m + 1), FileOfLine(m))

\* C24: in both duplicate passes every group is ordered by the rank of its
\* files, the disambiguator first and the final name second; the first file
\* of a group survives the within-folder pass and is the first that the
\* duplicates file lists, so that a file without disambiguator comes before
\* one with a disambiguator whatever the order of enumeration.
C24_SurvivorRule ==
    /\ AfterWithinFolder /\ cfg.removeDuplicatesWithinFolder => SurvivorIsFirst
    /\ pc = "ArchiveWideDedupReport" /\ cfg.saveDuplicateFileNamesTo => \A f \in Range(files) : ~Unlinked(f) /\ Cardinality(HashGroup(f)) > 1 => Ranked(f)
    /\ manifest # NoManifest => ManifestInOrder

\* The survivor rule where every file has a rank.
C24_RankedGroupsInOrder ==
    /\ AfterWithinFolder /\ cfg.removeDuplicatesWithinFolder => SurvivorIsFirst
    /\ manifest # NoManifest => ManifestInOrder

\* A group of two files of which one needed a disambiguator was ordered in
\* both passes.
C24_Witness == /\ pc = "Done" /\ cfg.removeDuplicatesWithinFolder /\ manifest # NoManifest /\ Len(manifest) > 1
               /\ \E f, g \in Range(files) : f.pathHash = g.pathHash /\ f.duplicateIdx.n = 0 /\ g.duplicateIdx.n = 1 /\ Unlinked(g) /\ ~Unlinked(f)

\* ------------------------------------------------------------------ C25
\* The thumbnail pass marked the file: an original of it is listed and
\* thumbnails are not deleted.
Marked(f) == f.tmpSet /\ ~cfg.deleteThumbnailIfOriginalExists /\ OriginalListed(f.id)

\* C25 as stated: the final name of a marked thumbnail is the marker
\* followed by its original name, with nothing stripped, substituted or
\* prepended.
C25_MarkedNameIsFinal == Classifying /\ Marked(Current) => Dest(Current).name = <<findOriginal.found>> \o Current.name

\* C25, amended: a marked thumbnail goes through the naming steps like any
\* file.  Its final name starts with the marker, behind the timestamp prefix
\* when a timestamp matched; the matched uid is stripped, the configured
\* parts are substituted, and the prefix is added when a timestamp matched.
C25_MarkedNameIsDerived ==
    Classifying /\ Marked(Current) =>
        \A d \in {Dest(Current)} : \A t \in {Posted(Current)} :
            /\ d.name # <<>>
            /\ d.name[1] = (IF t = 0 THEN findOriginal.found ELSE strftime(t) \o " " \o findOriginal.found)
            /\ \A k \in 1..Len(d.name) : d.name[k] \notin DOMAIN fileTimestamps
            /\ \A k \in 1..Len(d.name) : d.name[k] \notin {part \in DOMAIN replaceFileNamePart : replaceFileNamePart[part] # part}
            /\ d.name # <<findOriginal.found>> \o Current.name

\* A marked thumbnail of a message is about to be renamed.
C25_Witness == Classifying /\ Marked(Current) /\ Posted(Current) # 0 /\ Dest(Current).name = <<strftime(Posted(Current)) \o " " \o findOriginal.found, "tn">>

\* ------------------------------------------------------------------ C26
\* The places of the name given to the call whose token is a key of the
\* Identity Index, the id of an identity, a key of the Timestamp Index.
KeyAt == {k \in 1..Len(call.a) : \E i \in 1..Len(identities) : identities[i].identity = call.a[k]}

IdAt == {k \in 1..Len(call.a) : \E i \in 1..Len(identities) : identities[i].id # "" /\ identities[i].id = call.a[k]}

UidAt == {k \in 1..Len(call.a) : call.a[k] \in DOMAIN fileTimestamps}

Least(S) == CHOOSE m \in S : \A n \in S : m <= n

MatchedIdentity == identityFromFilename(Current.name, identities)

MatchedToken == LET keys == {k \in 1..Len(Current.name) : IsKey(Current.name[k], identities)}
                    idks == {k \in 1..Len(Current.name) : IsId(Current.name[k], identities)}
                IN Current.name[Least(IF keys # {} THEN keys ELSE idks)]

\* The name holds the string: as a token, or behind a timestamp prefix.
Holds(name, str) == \E k \in 1..Len(name) : name[k] = str \/ \E t \in Timestamps : name[k] = strftime(t) \o " " \o str

\* The folder that the timestamp match gives a file, its own folder when no
\* timestamp matched.
TimestampFolder(f) == IF timestampFromFilename(f.name, fileTimestamps) # NoTimestamp THEN timestampFromFilename(f.name, fileTimestamps).destDir ELSE f.dir

\* C27: a file that is no table or text and whose matched identity has a
\* conversation table goes to the folder of that table, whatever folder a
\* timestamp match gives, and its final name holds neither the token that
\* matched nor the display name of the identity; when the identity has no
\* table the folder of the timestamp match, or the file's folder, is kept.
C27_IdentityFolderAndStripping ==
    Classifying /\ ~SkipsNaming(Current) /\ MatchedIdentity # NoIdentity =>
        \A d \in {Dest(Current)} : \A i \in {CsvOfIdentity(MatchedIdentity)} :
            /\ i # 0 => d.dir = csvFiles[i].destDir /\ ~Holds(d.name, MatchedToken) /\ ~Holds(d.name, MatchedIdentity.fullname)
            /\ i = 0 => d.dir = TimestampFolder(Current)

\* The folder part of C27 alone, and the stripping for a token that is a key.
C27_IdentityFolder ==
    Classifying /\ ~SkipsNaming(Current) /\ MatchedIdentity # NoIdentity =>
        \A d \in {Dest(Current)} : \A i \in {CsvOfIdentity(MatchedIdentity)} :
            /\ i # 0 => d.dir = csvFiles[i].destDir
            /\ i # 0 /\ IsKey(MatchedToken, identities) => ~Holds(d.name, MatchedToken) /\ ~Holds(d.name, MatchedIdentity.fullname)
            /\ i = 0 => d.dir = TimestampFolder(Current)

\* ------------------------------------------------------------------ C28
\* The token starts with the timestamp prefix of time t: it is the prefix
\* with nothing behind it (the blank trimmed or not), or the prefix and a rest.
StartsWith(tok, t) == tok = strftime(t) \/ <<TimestampPart(t), tok>> \in DOMAIN Stripped

\* What is behind the prefix in a token that starts with it.
Behind(tok, t) == IF tok = strftime(t) THEN "" ELSE Stripped[<<TimestampPart(t), tok>>]

\* The name starts with the prefix of time t and holds it nowhere else.
PrefixedOnce(name, t) == /\ name # <<>>
                         /\ StartsWith(name[1], t)
                         /\ ~StartsWith(Behind(name[1], t), t)
                         /\ \A k \in 2..Len(name) : ~StartsWith(name[k], t)

\* The file that is about to be classified has a timestamp match.
Stamped == Classifying /\ ~SkipsNaming(Current) /\ Posted(Current) # 0

\* C28: the final name of a file with a timestamp match starts with the
\* formatted timestamp, holds it exactly once however often the working name
\* held it, and does not hold the uid that matched.
C28_PrefixOnceAndNoUid ==
    Stamped => \A d \in {Dest(Current)} : PrefixedOnce(d.name, Posted(Current)) /\ ~Holds(d.name, timestampFromFilename(Current.name, fileTimestamps).uid)

\* The prefix part of C28 alone.
C28_PrefixOnce == Stamped => PrefixedOnce(Dest(Current).name, Posted(Current))

\* A name that held the prefix twice is about to be renamed to the prefix alone.
C28_PrefixOnceReached == Stamped /\ Cardinality({k \in 1..Len(Current.name) : StartsWith(Current.name[k], Posted(Current))}) = 2 /\ Dest(Current).name = <<strftime(Posted(Current))>>

\* ------------------------------------------------------------------ C29
\* The files that the thumbnail pass deleted.
DeletedAsThumbnail == {id \in Listed : Logged("debug", "ok, could delete thumbnail file", OriginalPath(id))}

\* C29: when the thumbnail pass has ended, the original of every file that
\* the pass deleted as a thumbnail is on disk.
C29_OriginalOutlivesThumbnail ==
    run = 1 /\ pc = "IndexIdentities" =>
        \A id \in DeletedAsThumbnail : \E p \in DOMAIN disk : p.name = nameRed(Pool[id].name)

\* ------------------------------------------------------------------ C30
\* The file that is about to be classified is given another full name.
Moving == Classifying /\ Candidate(Dest(Current), 0) # Current.fullname

\* C30: when a file is about to be renamed, its destination folder exists.
C30_DestinationFolderExists == Moving => Resolve(Dest(Current).dir) \in dirs

\* C30 for the files that are not given the folder of a skipped table.
C30_FolderOfReadTableExists == Moving /\ (\A c \in SkippedTables : Dest(Current).dir # c.destDir) => Resolve(Dest(Current).dir) \in dirs

====
